---- MODULE Spec2Model ----
(***************************************************************************)
(* gh-install: the asset-selection, download and checksum-verification     *)
(* pipeline of cmd/root.go together with the helpers of package utils.     *)
(*                                                                         *)
(* A Go string is modelled as a sequence of one-character strings, so that *)
(* the string functions of the code (ToLower, Fields, TrimPrefix, the      *)
(* regular expressions, filepath.Base/Ext/Clean) are computed character by *)
(* character and not assumed.  A file's content is the sequence of its     *)
(* lines, as bufio.Scanner delivers them.                                  *)
(***************************************************************************)
EXTENDS Integers, Sequences, FiniteSets, TLC

(***************************************************************************)
(* Go's strings package, on sequences of characters.                       *)
(***************************************************************************)
Digits == {"0", "1", "2", "3", "4", "5", "6", "7", "8", "9"}

\* unicode.IsSpace, which strings.TrimSpace and strings.Fields ask: tab, line
\* feed, vertical tab, form feed, carriage return, space, U+0085, U+00A0,
\* U+1680 and the spaces from U+2000 on
SpaceChars ==
    {"\t", "\n", "", "\f", "\r", " ", "", " ", " ",
     "U+2000", "U+2001", "U+2002", "U+2003", "U+2004", "U+2005", "U+2006",
     "U+2007", "U+2008", "U+2009", "U+200A", "U+2028", "U+2029", "U+202F",
     "U+205F", "U+3000"}

(***************************************************************************)
(* Case mapping.  strings.ToLower and strings.ToUpper map every character  *)
(* with unicode.ToLower and unicode.ToUpper, and strings.EqualFold and the *)
(* (?i) flag of package regexp compare characters up to simple case        *)
(* folding (unicode.SimpleFold); none of them stops at ASCII.  The tables  *)
(* below are those of the Unicode character database.  A character that a  *)
(* string of this module cannot hold is written by its code point, as in   *)
(* "U+0178".                                                               *)
(***************************************************************************)
\* <<upper, lower>>: unicode.ToLower takes the first to the second and
\* unicode.ToUpper the second to the first
CasePairs ==
    {
     <<"A", "a">>, <<"B", "b">>, <<"C", "c">>, <<"D", "d">>, <<"E", "e">>, <<"F", "f">>,
     <<"G", "g">>, <<"H", "h">>, <<"I", "i">>, <<"J", "j">>, <<"K", "k">>, <<"L", "l">>,
     <<"M", "m">>, <<"N", "n">>, <<"O", "o">>, <<"P", "p">>, <<"Q", "q">>, <<"R", "r">>,
     <<"S", "s">>, <<"T", "t">>, <<"U", "u">>, <<"V", "v">>, <<"W", "w">>, <<"X", "x">>,
     <<"Y", "y">>, <<"Z", "z">>, <<"À", "à">>, <<"Á", "á">>, <<"Â", "â">>, <<"Ã", "ã">>,
     <<"Ä", "ä">>, <<"Å", "å">>, <<"Æ", "æ">>, <<"Ç", "ç">>, <<"È", "è">>, <<"É", "é">>,
     <<"Ê", "ê">>, <<"Ë", "ë">>, <<"Ì", "ì">>, <<"Í", "í">>, <<"Î", "î">>, <<"Ï", "ï">>,
     <<"Ð", "ð">>, <<"Ñ", "ñ">>, <<"Ò", "ò">>, <<"Ó", "ó">>, <<"Ô", "ô">>, <<"Õ", "õ">>,
     <<"Ö", "ö">>, <<"Ø", "ø">>, <<"Ù", "ù">>, <<"Ú", "ú">>, <<"Û", "û">>, <<"Ü", "ü">>,
     <<"Ý", "ý">>, <<"Þ", "þ">>, <<"U+0100", "U+0101">>, <<"U+0102", "U+0103">>, <<"U+0104", "U+0105">>, <<"U+0106", "U+0107">>,
     <<"U+0108", "U+0109">>, <<"U+010A", "U+010B">>, <<"U+010C", "U+010D">>, <<"U+010E", "U+010F">>, <<"U+0110", "U+0111">>, <<"U+0112", "U+0113">>,
     <<"U+0114", "U+0115">>, <<"U+0116", "U+0117">>, <<"U+0118", "U+0119">>, <<"U+011A", "U+011B">>, <<"U+011C", "U+011D">>, <<"U+011E", "U+011F">>,
     <<"U+0120", "U+0121">>, <<"U+0122", "U+0123">>, <<"U+0124", "U+0125">>, <<"U+0126", "U+0127">>, <<"U+0128", "U+0129">>, <<"U+012A", "U+012B">>,
     <<"U+012C", "U+012D">>, <<"U+012E", "U+012F">>, <<"U+0132", "U+0133">>, <<"U+0134", "U+0135">>, <<"U+0136", "U+0137">>, <<"U+0139", "U+013A">>,
     <<"U+013B", "U+013C">>, <<"U+013D", "U+013E">>, <<"U+013F", "U+0140">>, <<"U+0141", "U+0142">>, <<"U+0143", "U+0144">>, <<"U+0145", "U+0146">>,
     <<"U+0147", "U+0148">>, <<"U+014A", "U+014B">>, <<"U+014C", "U+014D">>, <<"U+014E", "U+014F">>, <<"U+0150", "U+0151">>, <<"U+0152", "U+0153">>,
     <<"U+0154", "U+0155">>, <<"U+0156", "U+0157">>, <<"U+0158", "U+0159">>, <<"U+015A", "U+015B">>, <<"U+015C", "U+015D">>, <<"U+015E", "U+015F">>,
     <<"U+0160", "U+0161">>, <<"U+0162", "U+0163">>, <<"U+0164", "U+0165">>, <<"U+0166", "U+0167">>, <<"U+0168", "U+0169">>, <<"U+016A", "U+016B">>,
     <<"U+016C", "U+016D">>, <<"U+016E", "U+016F">>, <<"U+0170", "U+0171">>, <<"U+0172", "U+0173">>, <<"U+0174", "U+0175">>, <<"U+0176", "U+0177">>,
     <<"U+0178", "ÿ">>, <<"U+0179", "U+017A">>, <<"U+017B", "U+017C">>, <<"U+017D", "U+017E">>, <<"Ɓ", "U+0253">>, <<"Ƃ", "ƃ">>,
     <<"Ƅ", "ƅ">>, <<"Ɔ", "U+0254">>, <<"Ƈ", "ƈ">>, <<"Ɖ", "U+0256">>, <<"Ɗ", "U+0257">>, <<"Ƌ", "ƌ">>,
     <<"Ǝ", "ǝ">>, <<"Ə", "U+0259">>, <<"Ɛ", "U+025B">>, <<"Ƒ", "ƒ">>, <<"Ɠ", "U+0260">>, <<"Ɣ", "U+0263">>,
     <<"Ɩ", "U+0269">>, <<"Ɨ", "U+0268">>, <<"Ƙ", "ƙ">>, <<"Ɯ", "U+026F">>, <<"Ɲ", "U+0272">>, <<"Ɵ", "U+0275">>,
     <<"Ơ", "ơ">>, <<"Ƣ", "ƣ">>, <<"Ƥ", "ƥ">>, <<"Ʀ", "ʀ">>, <<"Ƨ", "ƨ">>, <<"Ʃ", "ʃ">>,
     <<"Ƭ", "ƭ">>, <<"Ʈ", "ʈ">>, <<"Ư", "ư">>, <<"Ʊ", "ʊ">>, <<"Ʋ", "ʋ">>, <<"Ƴ", "ƴ">>,
     <<"Ƶ", "ƶ">>, <<"Ʒ", "ʒ">>, <<"Ƹ", "ƹ">>, <<"Ƽ", "ƽ">>, <<"Ǆ", "ǆ">>, <<"Ǉ", "ǉ">>,
     <<"Ǌ", "ǌ">>, <<"Ǎ", "ǎ">>, <<"Ǐ", "ǐ">>, <<"Ǒ", "ǒ">>, <<"Ǔ", "ǔ">>, <<"Ǖ", "ǖ">>,
     <<"Ǘ", "ǘ">>, <<"Ǚ", "ǚ">>, <<"Ǜ", "ǜ">>, <<"Ǟ", "ǟ">>, <<"Ǡ", "ǡ">>, <<"Ǣ", "ǣ">>,
     <<"Ǥ", "ǥ">>, <<"Ǧ", "ǧ">>, <<"Ǩ", "ǩ">>, <<"Ǫ", "ǫ">>, <<"Ǭ", "ǭ">>, <<"Ǯ", "ǯ">>,
     <<"Ǳ", "ǳ">>, <<"Ǵ", "ǵ">>, <<"Ƕ", "ƕ">>, <<"Ƿ", "ƿ">>, <<"Ǹ", "ǹ">>, <<"Ǻ", "ǻ">>,
     <<"Ǽ", "ǽ">>, <<"Ǿ", "ǿ">>, <<"U+0200", "U+0201">>, <<"U+0202", "U+0203">>, <<"U+0204", "U+0205">>, <<"U+0206", "U+0207">>,
     <<"U+0208", "U+0209">>, <<"U+020A", "U+020B">>, <<"U+020C", "U+020D">>, <<"U+020E", "U+020F">>, <<"U+0210", "U+0211">>, <<"U+0212", "U+0213">>,
     <<"U+0214", "U+0215">>, <<"U+0216", "U+0217">>, <<"U+0218", "U+0219">>, <<"U+021A", "U+021B">>, <<"U+021C", "U+021D">>, <<"U+021E", "U+021F">>,
     <<"U+0220", "ƞ">>, <<"U+0222", "U+0223">>, <<"U+0224", "U+0225">>, <<"U+0226", "U+0227">>, <<"U+0228", "U+0229">>, <<"U+022A", "U+022B">>,
     <<"U+022C", "U+022D">>, <<"U+022E", "U+022F">>, <<"U+0230", "U+0231">>, <<"U+0232", "U+0233">>, <<"U+023A", "U+2C65">>, <<"U+023B", "U+023C">>,
     <<"U+023D", "ƚ">>, <<"U+023E", "U+2C66">>, <<"U+0241", "U+0242">>, <<"U+0243", "ƀ">>, <<"U+0244", "ʉ">>, <<"U+0245", "ʌ">>,
     <<"U+0246", "U+0247">>, <<"U+0248", "U+0249">>, <<"U+024A", "U+024B">>, <<"U+024C", "U+024D">>, <<"U+024E", "U+024F">>, <<"U+0370", "U+0371">>,
     <<"U+0372", "U+0373">>, <<"U+0376", "U+0377">>, <<"U+037F", "ϳ">>, <<"Ά", "ά">>, <<"Έ", "έ">>, <<"Ή", "ή">>,
     <<"Ί", "ί">>, <<"Ό", "ό">>, <<"Ύ", "ύ">>, <<"Ώ", "ώ">>, <<"Α", "α">>, <<"Β", "β">>,
     <<"Γ", "γ">>, <<"Δ", "δ">>, <<"Ε", "ε">>, <<"Ζ", "ζ">>, <<"Η", "η">>, <<"Θ", "θ">>,
     <<"Ι", "ι">>, <<"Κ", "κ">>, <<"Λ", "λ">>, <<"Μ", "μ">>, <<"Ν", "ν">>, <<"Ξ", "ξ">>,
     <<"Ο", "ο">>, <<"Π", "π">>, <<"Ρ", "ρ">>, <<"Σ", "σ">>, <<"Τ", "τ">>, <<"Υ", "υ">>,
     <<"Φ", "φ">>, <<"Χ", "χ">>, <<"Ψ", "ψ">>, <<"Ω", "ω">>, <<"Ϊ", "ϊ">>, <<"Ϋ", "ϋ">>,
     <<"Ϗ", "ϗ">>, <<"Ϙ", "ϙ">>, <<"Ϛ", "ϛ">>, <<"Ϝ", "ϝ">>, <<"Ϟ", "ϟ">>, <<"Ϡ", "ϡ">>,
     <<"Ϣ", "ϣ">>, <<"Ϥ", "ϥ">>, <<"Ϧ", "ϧ">>, <<"Ϩ", "ϩ">>, <<"Ϫ", "ϫ">>, <<"Ϭ", "ϭ">>,
     <<"Ϯ", "ϯ">>, <<"Ϸ", "ϸ">>, <<"Ϲ", "ϲ">>, <<"Ϻ", "ϻ">>, <<"Ͻ", "U+037B">>, <<"Ͼ", "U+037C">>,
     <<"Ͽ", "U+037D">>, <<"U+0400", "U+0450">>, <<"U+0401", "U+0451">>, <<"U+0402", "U+0452">>, <<"U+0403", "U+0453">>, <<"U+0404", "U+0454">>,
     <<"U+0405", "U+0455">>, <<"U+0406", "U+0456">>, <<"U+0407", "U+0457">>, <<"U+0408", "U+0458">>, <<"U+0409", "U+0459">>, <<"U+040A", "U+045A">>,
     <<"U+040B", "U+045B">>, <<"U+040C", "U+045C">>, <<"U+040D", "U+045D">>, <<"U+040E", "U+045E">>, <<"U+040F", "U+045F">>, <<"U+0410", "U+0430">>,
     <<"U+0411", "U+0431">>, <<"U+0412", "U+0432">>, <<"U+0413", "U+0433">>, <<"U+0414", "U+0434">>, <<"U+0415", "U+0435">>, <<"U+0416", "U+0436">>,
     <<"U+0417", "U+0437">>, <<"U+0418", "U+0438">>, <<"U+0419", "U+0439">>, <<"U+041A", "U+043A">>, <<"U+041B", "U+043B">>, <<"U+041C", "U+043C">>,
     <<"U+041D", "U+043D">>, <<"U+041E", "U+043E">>, <<"U+041F", "U+043F">>, <<"U+0420", "U+0440">>, <<"U+0421", "U+0441">>, <<"U+0422", "U+0442">>,
     <<"U+0423", "U+0443">>, <<"U+0424", "U+0444">>, <<"U+0425", "U+0445">>, <<"U+0426", "U+0446">>, <<"U+0427", "U+0447">>, <<"U+0428", "U+0448">>,
     <<"U+0429", "U+0449">>, <<"U+042A", "U+044A">>, <<"U+042B", "U+044B">>, <<"U+042C", "U+044C">>, <<"U+042D", "U+044D">>, <<"U+042E", "U+044E">>,
     <<"U+042F", "U+044F">>, <<"U+0460", "U+0461">>, <<"U+0462", "U+0463">>, <<"U+0464", "U+0465">>, <<"U+0466", "U+0467">>, <<"U+0468", "U+0469">>,
     <<"U+046A", "U+046B">>, <<"U+046C", "U+046D">>, <<"U+046E", "U+046F">>, <<"U+0470", "U+0471">>, <<"U+0472", "U+0473">>, <<"U+0474", "U+0475">>,
     <<"U+0476", "U+0477">>, <<"U+0478", "U+0479">>, <<"U+047A", "U+047B">>, <<"U+047C", "U+047D">>, <<"U+047E", "U+047F">>, <<"Ҁ", "ҁ">>,
     <<"Ҋ", "ҋ">>, <<"Ҍ", "ҍ">>, <<"Ҏ", "ҏ">>, <<"Ґ", "ґ">>, <<"Ғ", "ғ">>, <<"Ҕ", "ҕ">>,
     <<"Җ", "җ">>, <<"Ҙ", "ҙ">>, <<"Қ", "қ">>, <<"Ҝ", "ҝ">>, <<"Ҟ", "ҟ">>, <<"Ҡ", "ҡ">>,
     <<"Ң", "ң">>, <<"Ҥ", "ҥ">>, <<"Ҧ", "ҧ">>, <<"Ҩ", "ҩ">>, <<"Ҫ", "ҫ">>, <<"Ҭ", "ҭ">>,
     <<"Ү", "ү">>, <<"Ұ", "ұ">>, <<"Ҳ", "ҳ">>, <<"Ҵ", "ҵ">>, <<"Ҷ", "ҷ">>, <<"Ҹ", "ҹ">>,
     <<"Һ", "һ">>, <<"Ҽ", "ҽ">>, <<"Ҿ", "ҿ">>, <<"Ӏ", "ӏ">>, <<"Ӂ", "ӂ">>, <<"Ӄ", "ӄ">>,
     <<"Ӆ", "ӆ">>, <<"Ӈ", "ӈ">>, <<"Ӊ", "ӊ">>, <<"Ӌ", "ӌ">>, <<"Ӎ", "ӎ">>, <<"Ӑ", "ӑ">>,
     <<"Ӓ", "ӓ">>, <<"Ӕ", "ӕ">>, <<"Ӗ", "ӗ">>, <<"Ә", "ә">>, <<"Ӛ", "ӛ">>, <<"Ӝ", "ӝ">>,
     <<"Ӟ", "ӟ">>, <<"Ӡ", "ӡ">>, <<"Ӣ", "ӣ">>, <<"Ӥ", "ӥ">>, <<"Ӧ", "ӧ">>, <<"Ө", "ө">>,
     <<"Ӫ", "ӫ">>, <<"Ӭ", "ӭ">>, <<"Ӯ", "ӯ">>, <<"Ӱ", "ӱ">>, <<"Ӳ", "ӳ">>, <<"Ӵ", "ӵ">>,
     <<"Ӷ", "ӷ">>, <<"Ӹ", "ӹ">>, <<"Ӻ", "ӻ">>, <<"Ӽ", "ӽ">>, <<"Ӿ", "ӿ">>, <<"U+0500", "U+0501">>,
     <<"U+0502", "U+0503">>, <<"U+0504", "U+0505">>, <<"U+0506", "U+0507">>, <<"U+0508", "U+0509">>, <<"U+050A", "U+050B">>, <<"U+050C", "U+050D">>,
     <<"U+050E", "U+050F">>, <<"U+0510", "U+0511">>, <<"U+0512", "U+0513">>, <<"U+0514", "U+0515">>, <<"U+0516", "U+0517">>, <<"U+0518", "U+0519">>,
     <<"U+051A", "U+051B">>, <<"U+051C", "U+051D">>, <<"U+051E", "U+051F">>, <<"U+0520", "U+0521">>, <<"U+0522", "U+0523">>, <<"U+0524", "U+0525">>,
     <<"U+0526", "U+0527">>, <<"U+0528", "U+0529">>, <<"U+052A", "U+052B">>, <<"U+052C", "U+052D">>, <<"U+052E", "U+052F">>, <<"U+0531", "U+0561">>,
     <<"U+0532", "U+0562">>, <<"U+0533", "U+0563">>, <<"U+0534", "U+0564">>, <<"U+0535", "U+0565">>, <<"U+0536", "U+0566">>, <<"U+0537", "U+0567">>,
     <<"U+0538", "U+0568">>, <<"U+0539", "U+0569">>, <<"U+053A", "U+056A">>, <<"U+053B", "U+056B">>, <<"U+053C", "U+056C">>, <<"U+053D", "U+056D">>,
     <<"U+053E", "U+056E">>, <<"U+053F", "U+056F">>, <<"U+0540", "U+0570">>, <<"U+0541", "U+0571">>, <<"U+0542", "U+0572">>, <<"U+0543", "U+0573">>,
     <<"U+0544", "U+0574">>, <<"U+0545", "U+0575">>, <<"U+0546", "U+0576">>, <<"U+0547", "U+0577">>, <<"U+0548", "U+0578">>, <<"U+0549", "U+0579">>,
     <<"U+054A", "U+057A">>, <<"U+054B", "U+057B">>, <<"U+054C", "U+057C">>, <<"U+054D", "U+057D">>, <<"U+054E", "U+057E">>, <<"U+054F", "U+057F">>,
     <<"U+0550", "ր">>, <<"U+0551", "ց">>, <<"U+0552", "ւ">>, <<"U+0553", "փ">>, <<"U+0554", "ք">>, <<"U+0555", "օ">>,
     <<"U+0556", "ֆ">>, <<"Ⴀ", "U+2D00">>, <<"Ⴁ", "U+2D01">>, <<"Ⴂ", "U+2D02">>, <<"Ⴃ", "U+2D03">>, <<"Ⴄ", "U+2D04">>,
     <<"Ⴅ", "U+2D05">>, <<"Ⴆ", "U+2D06">>, <<"Ⴇ", "U+2D07">>, <<"Ⴈ", "U+2D08">>, <<"Ⴉ", "U+2D09">>, <<"Ⴊ", "U+2D0A">>,
     <<"Ⴋ", "U+2D0B">>, <<"Ⴌ", "U+2D0C">>, <<"Ⴍ", "U+2D0D">>, <<"Ⴎ", "U+2D0E">>, <<"Ⴏ", "U+2D0F">>, <<"Ⴐ", "U+2D10">>,
     <<"Ⴑ", "U+2D11">>, <<"Ⴒ", "U+2D12">>, <<"Ⴓ", "U+2D13">>, <<"Ⴔ", "U+2D14">>, <<"Ⴕ", "U+2D15">>, <<"Ⴖ", "U+2D16">>,
     <<"Ⴗ", "U+2D17">>, <<"Ⴘ", "U+2D18">>, <<"Ⴙ", "U+2D19">>, <<"Ⴚ", "U+2D1A">>, <<"Ⴛ", "U+2D1B">>, <<"Ⴜ", "U+2D1C">>,
     <<"Ⴝ", "U+2D1D">>, <<"Ⴞ", "U+2D1E">>, <<"Ⴟ", "U+2D1F">>, <<"Ⴠ", "U+2D20">>, <<"Ⴡ", "U+2D21">>, <<"Ⴢ", "U+2D22">>,
     <<"Ⴣ", "U+2D23">>, <<"Ⴤ", "U+2D24">>, <<"Ⴥ", "U+2D25">>, <<"Ⴧ", "U+2D27">>, <<"Ⴭ", "U+2D2D">>, <<"Ꭰ", "U+AB70">>,
     <<"Ꭱ", "U+AB71">>, <<"Ꭲ", "U+AB72">>, <<"Ꭳ", "U+AB73">>, <<"Ꭴ", "U+AB74">>, <<"Ꭵ", "U+AB75">>, <<"Ꭶ", "U+AB76">>,
     <<"Ꭷ", "U+AB77">>, <<"Ꭸ", "U+AB78">>, <<"Ꭹ", "U+AB79">>, <<"Ꭺ", "U+AB7A">>, <<"Ꭻ", "U+AB7B">>, <<"Ꭼ", "U+AB7C">>,
     <<"Ꭽ", "U+AB7D">>, <<"Ꭾ", "U+AB7E">>, <<"Ꭿ", "U+AB7F">>, <<"Ꮀ", "U+AB80">>, <<"Ꮁ", "U+AB81">>, <<"Ꮂ", "U+AB82">>,
     <<"Ꮃ", "U+AB83">>, <<"Ꮄ", "U+AB84">>, <<"Ꮅ", "U+AB85">>, <<"Ꮆ", "U+AB86">>, <<"Ꮇ", "U+AB87">>, <<"Ꮈ", "U+AB88">>,
     <<"Ꮉ", "U+AB89">>, <<"Ꮊ", "U+AB8A">>, <<"Ꮋ", "U+AB8B">>, <<"Ꮌ", "U+AB8C">>, <<"Ꮍ", "U+AB8D">>, <<"Ꮎ", "U+AB8E">>,
     <<"Ꮏ", "U+AB8F">>, <<"Ꮐ", "U+AB90">>, <<"Ꮑ", "U+AB91">>, <<"Ꮒ", "U+AB92">>, <<"Ꮓ", "U+AB93">>, <<"Ꮔ", "U+AB94">>,
     <<"Ꮕ", "U+AB95">>, <<"Ꮖ", "U+AB96">>, <<"Ꮗ", "U+AB97">>, <<"Ꮘ", "U+AB98">>, <<"Ꮙ", "U+AB99">>, <<"Ꮚ", "U+AB9A">>,
     <<"Ꮛ", "U+AB9B">>, <<"Ꮜ", "U+AB9C">>, <<"Ꮝ", "U+AB9D">>, <<"Ꮞ", "U+AB9E">>, <<"Ꮟ", "U+AB9F">>, <<"Ꮠ", "U+ABA0">>,
     <<"Ꮡ", "U+ABA1">>, <<"Ꮢ", "U+ABA2">>, <<"Ꮣ", "U+ABA3">>, <<"Ꮤ", "U+ABA4">>, <<"Ꮥ", "U+ABA5">>, <<"Ꮦ", "U+ABA6">>,
     <<"Ꮧ", "U+ABA7">>, <<"Ꮨ", "U+ABA8">>, <<"Ꮩ", "U+ABA9">>, <<"Ꮪ", "U+ABAA">>, <<"Ꮫ", "U+ABAB">>, <<"Ꮬ", "U+ABAC">>,
     <<"Ꮭ", "U+ABAD">>, <<"Ꮮ", "U+ABAE">>, <<"Ꮯ", "U+ABAF">>, <<"Ꮰ", "U+ABB0">>, <<"Ꮱ", "U+ABB1">>, <<"Ꮲ", "U+ABB2">>,
     <<"Ꮳ", "U+ABB3">>, <<"Ꮴ", "U+ABB4">>, <<"Ꮵ", "U+ABB5">>, <<"Ꮶ", "U+ABB6">>, <<"Ꮷ", "U+ABB7">>, <<"Ꮸ", "U+ABB8">>,
     <<"Ꮹ", "U+ABB9">>, <<"Ꮺ", "U+ABBA">>, <<"Ꮻ", "U+ABBB">>, <<"Ꮼ", "U+ABBC">>, <<"Ꮽ", "U+ABBD">>, <<"Ꮾ", "U+ABBE">>,
     <<"Ꮿ", "U+ABBF">>, <<"Ᏸ", "ᏸ">>, <<"Ᏹ", "ᏹ">>, <<"Ᏺ", "ᏺ">>, <<"Ᏻ", "ᏻ">>, <<"Ᏼ", "ᏼ">>,
     <<"Ᏽ", "ᏽ">>, <<"Ა", "ა">>, <<"Ბ", "ბ">>, <<"Გ", "გ">>, <<"Დ", "დ">>, <<"Ე", "ე">>,
     <<"Ვ", "ვ">>, <<"Ზ", "ზ">>, <<"Თ", "თ">>, <<"Ი", "ი">>, <<"Კ", "კ">>, <<"Ლ", "ლ">>,
     <<"Მ", "მ">>, <<"Ნ", "ნ">>, <<"Ო", "ო">>, <<"Პ", "პ">>, <<"Ჟ", "ჟ">>, <<"Რ", "რ">>,
     <<"Ს", "ს">>, <<"Ტ", "ტ">>, <<"Უ", "უ">>, <<"Ფ", "ფ">>, <<"Ქ", "ქ">>, <<"Ღ", "ღ">>,
     <<"Ყ", "ყ">>, <<"Შ", "შ">>, <<"Ჩ", "ჩ">>, <<"Ც", "ც">>, <<"Ძ", "ძ">>, <<"Წ", "წ">>,
     <<"Ჭ", "ჭ">>, <<"Ხ", "ხ">>, <<"Ჯ", "ჯ">>, <<"Ჰ", "ჰ">>, <<"Ჱ", "ჱ">>, <<"Ჲ", "ჲ">>,
     <<"Ჳ", "ჳ">>, <<"Ჴ", "ჴ">>, <<"Ჵ", "ჵ">>, <<"Ჶ", "ჶ">>, <<"Ჷ", "ჷ">>, <<"Ჸ", "ჸ">>,
     <<"Ჹ", "ჹ">>, <<"Ჺ", "ჺ">>, <<"Ჽ", "ჽ">>, <<"Ჾ", "ჾ">>, <<"Ჿ", "ჿ">>, <<"U+1E00", "U+1E01">>,
     <<"U+1E02", "U+1E03">>, <<"U+1E04", "U+1E05">>, <<"U+1E06", "U+1E07">>, <<"U+1E08", "U+1E09">>, <<"U+1E0A", "U+1E0B">>, <<"U+1E0C", "U+1E0D">>,
     <<"U+1E0E", "U+1E0F">>, <<"U+1E10", "U+1E11">>, <<"U+1E12", "U+1E13">>, <<"U+1E14", "U+1E15">>, <<"U+1E16", "U+1E17">>, <<"U+1E18", "U+1E19">>,
     <<"U+1E1A", "U+1E1B">>, <<"U+1E1C", "U+1E1D">>, <<"U+1E1E", "U+1E1F">>, <<"U+1E20", "U+1E21">>, <<"U+1E22", "U+1E23">>, <<"U+1E24", "U+1E25">>,
     <<"U+1E26", "U+1E27">>, <<"U+1E28", "U+1E29">>, <<"U+1E2A", "U+1E2B">>, <<"U+1E2C", "U+1E2D">>, <<"U+1E2E", "U+1E2F">>, <<"U+1E30", "U+1E31">>,
     <<"U+1E32", "U+1E33">>, <<"U+1E34", "U+1E35">>, <<"U+1E36", "U+1E37">>, <<"U+1E38", "U+1E39">>, <<"U+1E3A", "U+1E3B">>, <<"U+1E3C", "U+1E3D">>,
     <<"U+1E3E", "U+1E3F">>, <<"U+1E40", "U+1E41">>, <<"U+1E42", "U+1E43">>, <<"U+1E44", "U+1E45">>, <<"U+1E46", "U+1E47">>, <<"U+1E48", "U+1E49">>,
     <<"U+1E4A", "U+1E4B">>, <<"U+1E4C", "U+1E4D">>, <<"U+1E4E", "U+1E4F">>, <<"U+1E50", "U+1E51">>, <<"U+1E52", "U+1E53">>, <<"U+1E54", "U+1E55">>,
     <<"U+1E56", "U+1E57">>, <<"U+1E58", "U+1E59">>, <<"U+1E5A", "U+1E5B">>, <<"U+1E5C", "U+1E5D">>, <<"U+1E5E", "U+1E5F">>, <<"U+1E60", "U+1E61">>,
     <<"U+1E62", "U+1E63">>, <<"U+1E64", "U+1E65">>, <<"U+1E66", "U+1E67">>, <<"U+1E68", "U+1E69">>, <<"U+1E6A", "U+1E6B">>, <<"U+1E6C", "U+1E6D">>,
     <<"U+1E6E", "U+1E6F">>, <<"U+1E70", "U+1E71">>, <<"U+1E72", "U+1E73">>, <<"U+1E74", "U+1E75">>, <<"U+1E76", "U+1E77">>, <<"U+1E78", "U+1E79">>,
     <<"U+1E7A", "U+1E7B">>, <<"U+1E7C", "U+1E7D">>, <<"U+1E7E", "U+1E7F">>, <<"Ẁ", "ẁ">>, <<"Ẃ", "ẃ">>, <<"Ẅ", "ẅ">>,
     <<"Ẇ", "ẇ">>, <<"Ẉ", "ẉ">>, <<"Ẋ", "ẋ">>, <<"Ẍ", "ẍ">>, <<"Ẏ", "ẏ">>, <<"Ẑ", "ẑ">>,
     <<"Ẓ", "ẓ">>, <<"Ẕ", "ẕ">>, <<"Ạ", "ạ">>, <<"Ả", "ả">>, <<"Ấ", "ấ">>, <<"Ầ", "ầ">>,
     <<"Ẩ", "ẩ">>, <<"Ẫ", "ẫ">>, <<"Ậ", "ậ">>, <<"Ắ", "ắ">>, <<"Ằ", "ằ">>, <<"Ẳ", "ẳ">>,
     <<"Ẵ", "ẵ">>, <<"Ặ", "ặ">>, <<"Ẹ", "ẹ">>, <<"Ẻ", "ẻ">>, <<"Ẽ", "ẽ">>, <<"Ế", "ế">>,
     <<"Ề", "ề">>, <<"Ể", "ể">>, <<"Ễ", "ễ">>, <<"Ệ", "ệ">>, <<"Ỉ", "ỉ">>, <<"Ị", "ị">>,
     <<"Ọ", "ọ">>, <<"Ỏ", "ỏ">>, <<"Ố", "ố">>, <<"Ồ", "ồ">>, <<"Ổ", "ổ">>, <<"Ỗ", "ỗ">>,
     <<"Ộ", "ộ">>, <<"Ớ", "ớ">>, <<"Ờ", "ờ">>, <<"Ở", "ở">>, <<"Ỡ", "ỡ">>, <<"Ợ", "ợ">>,
     <<"Ụ", "ụ">>, <<"Ủ", "ủ">>, <<"Ứ", "ứ">>, <<"Ừ", "ừ">>, <<"Ử", "ử">>, <<"Ữ", "ữ">>,
     <<"Ự", "ự">>, <<"Ỳ", "ỳ">>, <<"Ỵ", "ỵ">>, <<"Ỷ", "ỷ">>, <<"Ỹ", "ỹ">>, <<"Ỻ", "ỻ">>,
     <<"Ỽ", "ỽ">>, <<"Ỿ", "ỿ">>, <<"U+1F08", "U+1F00">>, <<"U+1F09", "U+1F01">>, <<"U+1F0A", "U+1F02">>, <<"U+1F0B", "U+1F03">>,
     <<"U+1F0C", "U+1F04">>, <<"U+1F0D", "U+1F05">>, <<"U+1F0E", "U+1F06">>, <<"U+1F0F", "U+1F07">>, <<"U+1F18", "U+1F10">>, <<"U+1F19", "U+1F11">>,
     <<"U+1F1A", "U+1F12">>, <<"U+1F1B", "U+1F13">>, <<"U+1F1C", "U+1F14">>, <<"U+1F1D", "U+1F15">>, <<"U+1F28", "U+1F20">>, <<"U+1F29", "U+1F21">>,
     <<"U+1F2A", "U+1F22">>, <<"U+1F2B", "U+1F23">>, <<"U+1F2C", "U+1F24">>, <<"U+1F2D", "U+1F25">>, <<"U+1F2E", "U+1F26">>, <<"U+1F2F", "U+1F27">>,
     <<"U+1F38", "U+1F30">>, <<"U+1F39", "U+1F31">>, <<"U+1F3A", "U+1F32">>, <<"U+1F3B", "U+1F33">>, <<"U+1F3C", "U+1F34">>, <<"U+1F3D", "U+1F35">>,
     <<"U+1F3E", "U+1F36">>, <<"U+1F3F", "U+1F37">>, <<"U+1F48", "U+1F40">>, <<"U+1F49", "U+1F41">>, <<"U+1F4A", "U+1F42">>, <<"U+1F4B", "U+1F43">>,
     <<"U+1F4C", "U+1F44">>, <<"U+1F4D", "U+1F45">>, <<"U+1F59", "U+1F51">>, <<"U+1F5B", "U+1F53">>, <<"U+1F5D", "U+1F55">>, <<"U+1F5F", "U+1F57">>,
     <<"U+1F68", "U+1F60">>, <<"U+1F69", "U+1F61">>, <<"U+1F6A", "U+1F62">>, <<"U+1F6B", "U+1F63">>, <<"U+1F6C", "U+1F64">>, <<"U+1F6D", "U+1F65">>,
     <<"U+1F6E", "U+1F66">>, <<"U+1F6F", "U+1F67">>, <<"ᾈ", "ᾀ">>, <<"ᾉ", "ᾁ">>, <<"ᾊ", "ᾂ">>, <<"ᾋ", "ᾃ">>,
     <<"ᾌ", "ᾄ">>, <<"ᾍ", "ᾅ">>, <<"ᾎ", "ᾆ">>, <<"ᾏ", "ᾇ">>, <<"ᾘ", "ᾐ">>, <<"ᾙ", "ᾑ">>,
     <<"ᾚ", "ᾒ">>, <<"ᾛ", "ᾓ">>, <<"ᾜ", "ᾔ">>, <<"ᾝ", "ᾕ">>, <<"ᾞ", "ᾖ">>, <<"ᾟ", "ᾗ">>,
     <<"ᾨ", "ᾠ">>, <<"ᾩ", "ᾡ">>, <<"ᾪ", "ᾢ">>, <<"ᾫ", "ᾣ">>, <<"ᾬ", "ᾤ">>, <<"ᾭ", "ᾥ">>,
     <<"ᾮ", "ᾦ">>, <<"ᾯ", "ᾧ">>, <<"Ᾰ", "ᾰ">>, <<"Ᾱ", "ᾱ">>, <<"Ὰ", "U+1F70">>, <<"Ά", "U+1F71">>,
     <<"ᾼ", "ᾳ">>, <<"Ὲ", "U+1F72">>, <<"Έ", "U+1F73">>, <<"Ὴ", "U+1F74">>, <<"Ή", "U+1F75">>, <<"ῌ", "ῃ">>,
     <<"Ῐ", "ῐ">>, <<"Ῑ", "ῑ">>, <<"Ὶ", "U+1F76">>, <<"Ί", "U+1F77">>, <<"Ῠ", "ῠ">>, <<"Ῡ", "ῡ">>,
     <<"Ὺ", "U+1F7A">>, <<"Ύ", "U+1F7B">>, <<"Ῥ", "ῥ">>, <<"Ὸ", "U+1F78">>, <<"Ό", "U+1F79">>, <<"Ὼ", "U+1F7C">>,
     <<"Ώ", "U+1F7D">>, <<"ῼ", "ῳ">>, <<"U+2132", "U+214E">>, <<"U+2160", "U+2170">>, <<"U+2161", "U+2171">>, <<"U+2162", "U+2172">>,
     <<"U+2163", "U+2173">>, <<"U+2164", "U+2174">>, <<"U+2165", "U+2175">>, <<"U+2166", "U+2176">>, <<"U+2167", "U+2177">>, <<"U+2168", "U+2178">>,
     <<"U+2169", "U+2179">>, <<"U+216A", "U+217A">>, <<"U+216B", "U+217B">>, <<"U+216C", "U+217C">>, <<"U+216D", "U+217D">>, <<"U+216E", "U+217E">>,
     <<"U+216F", "U+217F">>, <<"U+2183", "U+2184">>, <<"U+24B6", "U+24D0">>, <<"U+24B7", "U+24D1">>, <<"U+24B8", "U+24D2">>, <<"U+24B9", "U+24D3">>,
     <<"U+24BA", "U+24D4">>, <<"U+24BB", "U+24D5">>, <<"U+24BC", "U+24D6">>, <<"U+24BD", "U+24D7">>, <<"U+24BE", "U+24D8">>, <<"U+24BF", "U+24D9">>,
     <<"U+24C0", "U+24DA">>, <<"U+24C1", "U+24DB">>, <<"U+24C2", "U+24DC">>, <<"U+24C3", "U+24DD">>, <<"U+24C4", "U+24DE">>, <<"U+24C5", "U+24DF">>,
     <<"U+24C6", "U+24E0">>, <<"U+24C7", "U+24E1">>, <<"U+24C8", "U+24E2">>, <<"U+24C9", "U+24E3">>, <<"U+24CA", "U+24E4">>, <<"U+24CB", "U+24E5">>,
     <<"U+24CC", "U+24E6">>, <<"U+24CD", "U+24E7">>, <<"U+24CE", "U+24E8">>, <<"U+24CF", "U+24E9">>, <<"U+2C00", "U+2C30">>, <<"U+2C01", "U+2C31">>,
     <<"U+2C02", "U+2C32">>, <<"U+2C03", "U+2C33">>, <<"U+2C04", "U+2C34">>, <<"U+2C05", "U+2C35">>, <<"U+2C06", "U+2C36">>, <<"U+2C07", "U+2C37">>,
     <<"U+2C08", "U+2C38">>, <<"U+2C09", "U+2C39">>, <<"U+2C0A", "U+2C3A">>, <<"U+2C0B", "U+2C3B">>, <<"U+2C0C", "U+2C3C">>, <<"U+2C0D", "U+2C3D">>,
     <<"U+2C0E", "U+2C3E">>, <<"U+2C0F", "U+2C3F">>, <<"U+2C10", "U+2C40">>, <<"U+2C11", "U+2C41">>, <<"U+2C12", "U+2C42">>, <<"U+2C13", "U+2C43">>,
     <<"U+2C14", "U+2C44">>, <<"U+2C15", "U+2C45">>, <<"U+2C16", "U+2C46">>, <<"U+2C17", "U+2C47">>, <<"U+2C18", "U+2C48">>, <<"U+2C19", "U+2C49">>,
     <<"U+2C1A", "U+2C4A">>, <<"U+2C1B", "U+2C4B">>, <<"U+2C1C", "U+2C4C">>, <<"U+2C1D", "U+2C4D">>, <<"U+2C1E", "U+2C4E">>, <<"U+2C1F", "U+2C4F">>,
     <<"U+2C20", "U+2C50">>, <<"U+2C21", "U+2C51">>, <<"U+2C22", "U+2C52">>, <<"U+2C23", "U+2C53">>, <<"U+2C24", "U+2C54">>, <<"U+2C25", "U+2C55">>,
     <<"U+2C26", "U+2C56">>, <<"U+2C27", "U+2C57">>, <<"U+2C28", "U+2C58">>, <<"U+2C29", "U+2C59">>, <<"U+2C2A", "U+2C5A">>, <<"U+2C2B", "U+2C5B">>,
     <<"U+2C2C", "U+2C5C">>, <<"U+2C2D", "U+2C5D">>, <<"U+2C2E", "U+2C5E">>, <<"U+2C2F", "U+2C5F">>, <<"U+2C60", "U+2C61">>, <<"U+2C62", "U+026B">>,
     <<"U+2C63", "U+1D7D">>, <<"U+2C64", "U+027D">>, <<"U+2C67", "U+2C68">>, <<"U+2C69", "U+2C6A">>, <<"U+2C6B", "U+2C6C">>, <<"U+2C6D", "U+0251">>,
     <<"U+2C6E", "U+0271">>, <<"U+2C6F", "U+0250">>, <<"U+2C70", "U+0252">>, <<"U+2C72", "U+2C73">>, <<"U+2C75", "U+2C76">>, <<"U+2C7E", "U+023F">>,
     <<"U+2C7F", "U+0240">>, <<"U+2C80", "U+2C81">>, <<"U+2C82", "U+2C83">>, <<"U+2C84", "U+2C85">>, <<"U+2C86", "U+2C87">>, <<"U+2C88", "U+2C89">>,
     <<"U+2C8A", "U+2C8B">>, <<"U+2C8C", "U+2C8D">>, <<"U+2C8E", "U+2C8F">>, <<"U+2C90", "U+2C91">>, <<"U+2C92", "U+2C93">>, <<"U+2C94", "U+2C95">>,
     <<"U+2C96", "U+2C97">>, <<"U+2C98", "U+2C99">>, <<"U+2C9A", "U+2C9B">>, <<"U+2C9C", "U+2C9D">>, <<"U+2C9E", "U+2C9F">>, <<"U+2CA0", "U+2CA1">>,
     <<"U+2CA2", "U+2CA3">>, <<"U+2CA4", "U+2CA5">>, <<"U+2CA6", "U+2CA7">>, <<"U+2CA8", "U+2CA9">>, <<"U+2CAA", "U+2CAB">>, <<"U+2CAC", "U+2CAD">>,
     <<"U+2CAE", "U+2CAF">>, <<"U+2CB0", "U+2CB1">>, <<"U+2CB2", "U+2CB3">>, <<"U+2CB4", "U+2CB5">>, <<"U+2CB6", "U+2CB7">>, <<"U+2CB8", "U+2CB9">>,
     <<"U+2CBA", "U+2CBB">>, <<"U+2CBC", "U+2CBD">>, <<"U+2CBE", "U+2CBF">>, <<"U+2CC0", "U+2CC1">>, <<"U+2CC2", "U+2CC3">>, <<"U+2CC4", "U+2CC5">>,
     <<"U+2CC6", "U+2CC7">>, <<"U+2CC8", "U+2CC9">>, <<"U+2CCA", "U+2CCB">>, <<"U+2CCC", "U+2CCD">>, <<"U+2CCE", "U+2CCF">>, <<"U+2CD0", "U+2CD1">>,
     <<"U+2CD2", "U+2CD3">>, <<"U+2CD4", "U+2CD5">>, <<"U+2CD6", "U+2CD7">>, <<"U+2CD8", "U+2CD9">>, <<"U+2CDA", "U+2CDB">>, <<"U+2CDC", "U+2CDD">>,
     <<"U+2CDE", "U+2CDF">>, <<"U+2CE0", "U+2CE1">>, <<"U+2CE2", "U+2CE3">>, <<"U+2CEB", "U+2CEC">>, <<"U+2CED", "U+2CEE">>, <<"U+2CF2", "U+2CF3">>,
     <<"U+A640", "U+A641">>, <<"U+A642", "U+A643">>, <<"U+A644", "U+A645">>, <<"U+A646", "U+A647">>, <<"U+A648", "U+A649">>, <<"U+A64A", "U+A64B">>,
     <<"U+A64C", "U+A64D">>, <<"U+A64E", "U+A64F">>, <<"U+A650", "U+A651">>, <<"U+A652", "U+A653">>, <<"U+A654", "U+A655">>, <<"U+A656", "U+A657">>,
     <<"U+A658", "U+A659">>, <<"U+A65A", "U+A65B">>, <<"U+A65C", "U+A65D">>, <<"U+A65E", "U+A65F">>, <<"U+A660", "U+A661">>, <<"U+A662", "U+A663">>,
     <<"U+A664", "U+A665">>, <<"U+A666", "U+A667">>, <<"U+A668", "U+A669">>, <<"U+A66A", "U+A66B">>, <<"U+A66C", "U+A66D">>, <<"U+A680", "U+A681">>,
     <<"U+A682", "U+A683">>, <<"U+A684", "U+A685">>, <<"U+A686", "U+A687">>, <<"U+A688", "U+A689">>, <<"U+A68A", "U+A68B">>, <<"U+A68C", "U+A68D">>,
     <<"U+A68E", "U+A68F">>, <<"U+A690", "U+A691">>, <<"U+A692", "U+A693">>, <<"U+A694", "U+A695">>, <<"U+A696", "U+A697">>, <<"U+A698", "U+A699">>,
     <<"U+A69A", "U+A69B">>, <<"U+A722", "U+A723">>, <<"U+A724", "U+A725">>, <<"U+A726", "U+A727">>, <<"U+A728", "U+A729">>, <<"U+A72A", "U+A72B">>,
     <<"U+A72C", "U+A72D">>, <<"U+A72E", "U+A72F">>, <<"U+A732", "U+A733">>, <<"U+A734", "U+A735">>, <<"U+A736", "U+A737">>, <<"U+A738", "U+A739">>,
     <<"U+A73A", "U+A73B">>, <<"U+A73C", "U+A73D">>, <<"U+A73E", "U+A73F">>, <<"U+A740", "U+A741">>, <<"U+A742", "U+A743">>, <<"U+A744", "U+A745">>,
     <<"U+A746", "U+A747">>, <<"U+A748", "U+A749">>, <<"U+A74A", "U+A74B">>, <<"U+A74C", "U+A74D">>, <<"U+A74E", "U+A74F">>, <<"U+A750", "U+A751">>,
     <<"U+A752", "U+A753">>, <<"U+A754", "U+A755">>, <<"U+A756", "U+A757">>, <<"U+A758", "U+A759">>, <<"U+A75A", "U+A75B">>, <<"U+A75C", "U+A75D">>,
     <<"U+A75E", "U+A75F">>, <<"U+A760", "U+A761">>, <<"U+A762", "U+A763">>, <<"U+A764", "U+A765">>, <<"U+A766", "U+A767">>, <<"U+A768", "U+A769">>,
     <<"U+A76A", "U+A76B">>, <<"U+A76C", "U+A76D">>, <<"U+A76E", "U+A76F">>, <<"U+A779", "U+A77A">>, <<"U+A77B", "U+A77C">>, <<"U+A77D", "U+1D79">>,
     <<"U+A77E", "U+A77F">>, <<"U+A780", "U+A781">>, <<"U+A782", "U+A783">>, <<"U+A784", "U+A785">>, <<"U+A786", "U+A787">>, <<"U+A78B", "U+A78C">>,
     <<"U+A78D", "U+0265">>, <<"U+A790", "U+A791">>, <<"U+A792", "U+A793">>, <<"U+A796", "U+A797">>, <<"U+A798", "U+A799">>, <<"U+A79A", "U+A79B">>,
     <<"U+A79C", "U+A79D">>, <<"U+A79E", "U+A79F">>, <<"U+A7A0", "U+A7A1">>, <<"U+A7A2", "U+A7A3">>, <<"U+A7A4", "U+A7A5">>, <<"U+A7A6", "U+A7A7">>,
     <<"U+A7A8", "U+A7A9">>, <<"U+A7AA", "U+0266">>, <<"U+A7AB", "U+025C">>, <<"U+A7AC", "U+0261">>, <<"U+A7AD", "U+026C">>, <<"U+A7AE", "U+026A">>,
     <<"U+A7B0", "ʞ">>, <<"U+A7B1", "ʇ">>, <<"U+A7B2", "ʝ">>, <<"U+A7B3", "U+AB53">>, <<"U+A7B4", "U+A7B5">>, <<"U+A7B6", "U+A7B7">>,
     <<"U+A7B8", "U+A7B9">>, <<"U+A7BA", "U+A7BB">>, <<"U+A7BC", "U+A7BD">>, <<"U+A7BE", "U+A7BF">>, <<"U+A7C0", "U+A7C1">>, <<"U+A7C2", "U+A7C3">>,
     <<"U+A7C4", "U+A794">>, <<"U+A7C5", "ʂ">>, <<"U+A7C6", "ᶎ">>, <<"U+A7C7", "U+A7C8">>, <<"U+A7C9", "U+A7CA">>, <<"U+A7D0", "U+A7D1">>,
     <<"U+A7D6", "U+A7D7">>, <<"U+A7D8", "U+A7D9">>, <<"U+A7F5", "U+A7F6">>, <<"U+FF21", "U+FF41">>, <<"U+FF22", "U+FF42">>, <<"U+FF23", "U+FF43">>,
     <<"U+FF24", "U+FF44">>, <<"U+FF25", "U+FF45">>, <<"U+FF26", "U+FF46">>, <<"U+FF27", "U+FF47">>, <<"U+FF28", "U+FF48">>, <<"U+FF29", "U+FF49">>,
     <<"U+FF2A", "U+FF4A">>, <<"U+FF2B", "U+FF4B">>, <<"U+FF2C", "U+FF4C">>, <<"U+FF2D", "U+FF4D">>, <<"U+FF2E", "U+FF4E">>, <<"U+FF2F", "U+FF4F">>,
     <<"U+FF30", "U+FF50">>, <<"U+FF31", "U+FF51">>, <<"U+FF32", "U+FF52">>, <<"U+FF33", "U+FF53">>, <<"U+FF34", "U+FF54">>, <<"U+FF35", "U+FF55">>,
     <<"U+FF36", "U+FF56">>, <<"U+FF37", "U+FF57">>, <<"U+FF38", "U+FF58">>, <<"U+FF39", "U+FF59">>, <<"U+FF3A", "U+FF5A">>, <<"U+10400", "U+10428">>,
     <<"U+10401", "U+10429">>, <<"U+10402", "U+1042A">>, <<"U+10403", "U+1042B">>, <<"U+10404", "U+1042C">>, <<"U+10405", "U+1042D">>, <<"U+10406", "U+1042E">>,
     <<"U+10407", "U+1042F">>, <<"U+10408", "U+10430">>, <<"U+10409", "U+10431">>, <<"U+1040A", "U+10432">>, <<"U+1040B", "U+10433">>, <<"U+1040C", "U+10434">>,
     <<"U+1040D", "U+10435">>, <<"U+1040E", "U+10436">>, <<"U+1040F", "U+10437">>, <<"U+10410", "U+10438">>, <<"U+10411", "U+10439">>, <<"U+10412", "U+1043A">>,
     <<"U+10413", "U+1043B">>, <<"U+10414", "U+1043C">>, <<"U+10415", "U+1043D">>, <<"U+10416", "U+1043E">>, <<"U+10417", "U+1043F">>, <<"U+10418", "U+10440">>,
     <<"U+10419", "U+10441">>, <<"U+1041A", "U+10442">>, <<"U+1041B", "U+10443">>, <<"U+1041C", "U+10444">>, <<"U+1041D", "U+10445">>, <<"U+1041E", "U+10446">>,
     <<"U+1041F", "U+10447">>, <<"U+10420", "U+10448">>, <<"U+10421", "U+10449">>, <<"U+10422", "U+1044A">>, <<"U+10423", "U+1044B">>, <<"U+10424", "U+1044C">>,
     <<"U+10425", "U+1044D">>, <<"U+10426", "U+1044E">>, <<"U+10427", "U+1044F">>, <<"U+104B0", "U+104D8">>, <<"U+104B1", "U+104D9">>, <<"U+104B2", "U+104DA">>,
     <<"U+104B3", "U+104DB">>, <<"U+104B4", "U+104DC">>, <<"U+104B5", "U+104DD">>, <<"U+104B6", "U+104DE">>, <<"U+104B7", "U+104DF">>, <<"U+104B8", "U+104E0">>,
     <<"U+104B9", "U+104E1">>, <<"U+104BA", "U+104E2">>, <<"U+104BB", "U+104E3">>, <<"U+104BC", "U+104E4">>, <<"U+104BD", "U+104E5">>, <<"U+104BE", "U+104E6">>,
     <<"U+104BF", "U+104E7">>, <<"U+104C0", "U+104E8">>, <<"U+104C1", "U+104E9">>, <<"U+104C2", "U+104EA">>, <<"U+104C3", "U+104EB">>, <<"U+104C4", "U+104EC">>,
     <<"U+104C5", "U+104ED">>, <<"U+104C6", "U+104EE">>, <<"U+104C7", "U+104EF">>, <<"U+104C8", "U+104F0">>, <<"U+104C9", "U+104F1">>, <<"U+104CA", "U+104F2">>,
     <<"U+104CB", "U+104F3">>, <<"U+104CC", "U+104F4">>, <<"U+104CD", "U+104F5">>, <<"U+104CE", "U+104F6">>, <<"U+104CF", "U+104F7">>, <<"U+104D0", "U+104F8">>,
     <<"U+104D1", "U+104F9">>, <<"U+104D2", "U+104FA">>, <<"U+104D3", "U+104FB">>, <<"U+10570", "U+10597">>, <<"U+10571", "U+10598">>, <<"U+10572", "U+10599">>,
     <<"U+10573", "U+1059A">>, <<"U+10574", "U+1059B">>, <<"U+10575", "U+1059C">>, <<"U+10576", "U+1059D">>, <<"U+10577", "U+1059E">>, <<"U+10578", "U+1059F">>,
     <<"U+10579", "U+105A0">>, <<"U+1057A", "U+105A1">>, <<"U+1057C", "U+105A3">>, <<"U+1057D", "U+105A4">>, <<"U+1057E", "U+105A5">>, <<"U+1057F", "U+105A6">>,
     <<"U+10580", "U+105A7">>, <<"U+10581", "U+105A8">>, <<"U+10582", "U+105A9">>, <<"U+10583", "U+105AA">>, <<"U+10584", "U+105AB">>, <<"U+10585", "U+105AC">>,
     <<"U+10586", "U+105AD">>, <<"U+10587", "U+105AE">>, <<"U+10588", "U+105AF">>, <<"U+10589", "U+105B0">>, <<"U+1058A", "U+105B1">>, <<"U+1058C", "U+105B3">>,
     <<"U+1058D", "U+105B4">>, <<"U+1058E", "U+105B5">>, <<"U+1058F", "U+105B6">>, <<"U+10590", "U+105B7">>, <<"U+10591", "U+105B8">>, <<"U+10592", "U+105B9">>,
     <<"U+10594", "U+105BB">>, <<"U+10595", "U+105BC">>, <<"U+10C80", "U+10CC0">>, <<"U+10C81", "U+10CC1">>, <<"U+10C82", "U+10CC2">>, <<"U+10C83", "U+10CC3">>,
     <<"U+10C84", "U+10CC4">>, <<"U+10C85", "U+10CC5">>, <<"U+10C86", "U+10CC6">>, <<"U+10C87", "U+10CC7">>, <<"U+10C88", "U+10CC8">>, <<"U+10C89", "U+10CC9">>,
     <<"U+10C8A", "U+10CCA">>, <<"U+10C8B", "U+10CCB">>, <<"U+10C8C", "U+10CCC">>, <<"U+10C8D", "U+10CCD">>, <<"U+10C8E", "U+10CCE">>, <<"U+10C8F", "U+10CCF">>,
     <<"U+10C90", "U+10CD0">>, <<"U+10C91", "U+10CD1">>, <<"U+10C92", "U+10CD2">>, <<"U+10C93", "U+10CD3">>, <<"U+10C94", "U+10CD4">>, <<"U+10C95", "U+10CD5">>,
     <<"U+10C96", "U+10CD6">>, <<"U+10C97", "U+10CD7">>, <<"U+10C98", "U+10CD8">>, <<"U+10C99", "U+10CD9">>, <<"U+10C9A", "U+10CDA">>, <<"U+10C9B", "U+10CDB">>,
     <<"U+10C9C", "U+10CDC">>, <<"U+10C9D", "U+10CDD">>, <<"U+10C9E", "U+10CDE">>, <<"U+10C9F", "U+10CDF">>, <<"U+10CA0", "U+10CE0">>, <<"U+10CA1", "U+10CE1">>,
     <<"U+10CA2", "U+10CE2">>, <<"U+10CA3", "U+10CE3">>, <<"U+10CA4", "U+10CE4">>, <<"U+10CA5", "U+10CE5">>, <<"U+10CA6", "U+10CE6">>, <<"U+10CA7", "U+10CE7">>,
     <<"U+10CA8", "U+10CE8">>, <<"U+10CA9", "U+10CE9">>, <<"U+10CAA", "U+10CEA">>, <<"U+10CAB", "U+10CEB">>, <<"U+10CAC", "U+10CEC">>, <<"U+10CAD", "U+10CED">>,
     <<"U+10CAE", "U+10CEE">>, <<"U+10CAF", "U+10CEF">>, <<"U+10CB0", "U+10CF0">>, <<"U+10CB1", "U+10CF1">>, <<"U+10CB2", "U+10CF2">>, <<"U+118A0", "U+118C0">>,
     <<"U+118A1", "U+118C1">>, <<"U+118A2", "U+118C2">>, <<"U+118A3", "U+118C3">>, <<"U+118A4", "U+118C4">>, <<"U+118A5", "U+118C5">>, <<"U+118A6", "U+118C6">>,
     <<"U+118A7", "U+118C7">>, <<"U+118A8", "U+118C8">>, <<"U+118A9", "U+118C9">>, <<"U+118AA", "U+118CA">>, <<"U+118AB", "U+118CB">>, <<"U+118AC", "U+118CC">>,
     <<"U+118AD", "U+118CD">>, <<"U+118AE", "U+118CE">>, <<"U+118AF", "U+118CF">>, <<"U+118B0", "U+118D0">>, <<"U+118B1", "U+118D1">>, <<"U+118B2", "U+118D2">>,
     <<"U+118B3", "U+118D3">>, <<"U+118B4", "U+118D4">>, <<"U+118B5", "U+118D5">>, <<"U+118B6", "U+118D6">>, <<"U+118B7", "U+118D7">>, <<"U+118B8", "U+118D8">>,
     <<"U+118B9", "U+118D9">>, <<"U+118BA", "U+118DA">>, <<"U+118BB", "U+118DB">>, <<"U+118BC", "U+118DC">>, <<"U+118BD", "U+118DD">>, <<"U+118BE", "U+118DE">>,
     <<"U+118BF", "U+118DF">>, <<"U+16E40", "U+16E60">>, <<"U+16E41", "U+16E61">>, <<"U+16E42", "U+16E62">>, <<"U+16E43", "U+16E63">>, <<"U+16E44", "U+16E64">>,
     <<"U+16E45", "U+16E65">>, <<"U+16E46", "U+16E66">>, <<"U+16E47", "U+16E67">>, <<"U+16E48", "U+16E68">>, <<"U+16E49", "U+16E69">>, <<"U+16E4A", "U+16E6A">>,
     <<"U+16E4B", "U+16E6B">>, <<"U+16E4C", "U+16E6C">>, <<"U+16E4D", "U+16E6D">>, <<"U+16E4E", "U+16E6E">>, <<"U+16E4F", "U+16E6F">>, <<"U+16E50", "U+16E70">>,
     <<"U+16E51", "U+16E71">>, <<"U+16E52", "U+16E72">>, <<"U+16E53", "U+16E73">>, <<"U+16E54", "U+16E74">>, <<"U+16E55", "U+16E75">>, <<"U+16E56", "U+16E76">>,
     <<"U+16E57", "U+16E77">>, <<"U+16E58", "U+16E78">>, <<"U+16E59", "U+16E79">>, <<"U+16E5A", "U+16E7A">>, <<"U+16E5B", "U+16E7B">>, <<"U+16E5C", "U+16E7C">>,
     <<"U+16E5D", "U+16E7D">>, <<"U+16E5E", "U+16E7E">>, <<"U+16E5F", "U+16E7F">>, <<"U+1E900", "U+1E922">>, <<"U+1E901", "U+1E923">>, <<"U+1E902", "U+1E924">>,
     <<"U+1E903", "U+1E925">>, <<"U+1E904", "U+1E926">>, <<"U+1E905", "U+1E927">>, <<"U+1E906", "U+1E928">>, <<"U+1E907", "U+1E929">>, <<"U+1E908", "U+1E92A">>,
     <<"U+1E909", "U+1E92B">>, <<"U+1E90A", "U+1E92C">>, <<"U+1E90B", "U+1E92D">>, <<"U+1E90C", "U+1E92E">>, <<"U+1E90D", "U+1E92F">>, <<"U+1E90E", "U+1E930">>,
     <<"U+1E90F", "U+1E931">>, <<"U+1E910", "U+1E932">>, <<"U+1E911", "U+1E933">>, <<"U+1E912", "U+1E934">>, <<"U+1E913", "U+1E935">>, <<"U+1E914", "U+1E936">>,
     <<"U+1E915", "U+1E937">>, <<"U+1E916", "U+1E938">>, <<"U+1E917", "U+1E939">>, <<"U+1E918", "U+1E93A">>, <<"U+1E919", "U+1E93B">>, <<"U+1E91A", "U+1E93C">>,
     <<"U+1E91B", "U+1E93D">>, <<"U+1E91C", "U+1E93E">>, <<"U+1E91D", "U+1E93F">>, <<"U+1E91E", "U+1E940">>, <<"U+1E91F", "U+1E941">>, <<"U+1E920", "U+1E942">>,
     <<"U+1E921", "U+1E943">>}

\* <<c, unicode.ToLower(c)>> for the characters whose lower case does not map back
LowerOnly ==
    {
     <<"U+0130", "i">>, <<"ǅ", "ǆ">>, <<"ǈ", "ǉ">>, <<"ǋ", "ǌ">>, <<"ǲ", "ǳ">>, <<"ϴ", "θ">>,
     <<"ẞ", "ß">>, <<"U+2126", "ω">>, <<"U+212A", "k">>, <<"U+212B", "å">>}

\* <<c, unicode.ToUpper(c)>> for the characters whose upper case does not map back
UpperOnly ==
    {
     <<"µ", "Μ">>, <<"U+0131", "I">>, <<"U+017F", "S">>, <<"ǅ", "Ǆ">>, <<"ǈ", "Ǉ">>, <<"ǋ", "Ǌ">>,
     <<"ǲ", "Ǳ">>, <<"U+0345", "Ι">>, <<"ς", "Σ">>, <<"ϐ", "Β">>, <<"ϑ", "Θ">>, <<"ϕ", "Φ">>,
     <<"ϖ", "Π">>, <<"ϰ", "Κ">>, <<"ϱ", "Ρ">>, <<"ϵ", "Ε">>, <<"ᲀ", "U+0412">>, <<"ᲁ", "U+0414">>,
     <<"ᲂ", "U+041E">>, <<"ᲃ", "U+0421">>, <<"ᲄ", "U+0422">>, <<"ᲅ", "U+0422">>, <<"ᲆ", "U+042A">>, <<"ᲇ", "U+0462">>,
     <<"ᲈ", "U+A64A">>, <<"ẛ", "U+1E60">>, <<"ι", "Ι">>}

\* <<c, r>>: c lies in the folding orbit whose lower-case member is r although
\* unicode.ToLower(c) is not r (U+0130 is alone in its orbit)
FoldOnly ==
    {
     <<"µ", "μ">>, <<"U+0130", "U+0130">>, <<"U+017F", "s">>, <<"U+0345", "ι">>, <<"ς", "σ">>, <<"ϐ", "β">>,
     <<"ϑ", "θ">>, <<"ϕ", "φ">>, <<"ϖ", "π">>, <<"ϰ", "κ">>, <<"ϱ", "ρ">>, <<"ϵ", "ε">>,
     <<"ᲀ", "U+0432">>, <<"ᲁ", "U+0434">>, <<"ᲂ", "U+043E">>, <<"ᲃ", "U+0441">>, <<"ᲄ", "U+0442">>, <<"ᲅ", "U+0442">>,
     <<"ᲆ", "U+044A">>, <<"ᲇ", "U+0463">>, <<"ᲈ", "U+A64B">>, <<"ẛ", "U+1E61">>, <<"ι", "ι">>}

LowerTable ==
    [c \in {p[1] : p \in CasePairs \cup LowerOnly} |->
        (CHOOSE p \in CasePairs \cup LowerOnly : p[1] = c)[2]]

UpperTable ==
    [c \in {p[2] : p \in CasePairs} \cup {p[1] : p \in UpperOnly} |->
        IF \E p \in UpperOnly : p[1] = c
        THEN (CHOOSE p \in UpperOnly : p[1] = c)[2]
        ELSE (CHOOSE p \in CasePairs : p[2] = c)[1]]

FoldTable == [c \in {p[1] : p \in FoldOnly} |-> (CHOOSE p \in FoldOnly : p[1] = c)[2]]

\* unicode.ToLower
LowerChar(c) == IF c \in DOMAIN LowerTable THEN LowerTable[c] ELSE c

\* unicode.ToUpper
UpperChar(c) == IF c \in DOMAIN UpperTable THEN UpperTable[c] ELSE c

\* the member of c's unicode.SimpleFold orbit that stands for the orbit
FoldChar(c) == IF c \in DOMAIN FoldTable THEN FoldTable[c] ELSE LowerChar(c)

ToLower(s) == [i \in 1..Len(s) |-> LowerChar(s[i])]

ToUpper(s) == [i \in 1..Len(s) |-> UpperChar(s[i])]

\* a string with every character replaced by the one standing for its orbit:
\* what a (?i) pattern sees of its input and of its own literals
Fold(s) == [i \in 1..Len(s) |-> FoldChar(s[i])]

EqualFold(a, b) ==
    /\ Len(a) = Len(b)
    /\ \A i \in 1..Len(a) : FoldChar(a[i]) = FoldChar(b[i])

HasPrefix(s, p) == Len(p) <= Len(s) /\ SubSeq(s, 1, Len(p)) = p

HasSuffix(s, p) == Len(p) <= Len(s) /\ SubSeq(s, Len(s) - Len(p) + 1, Len(s)) = p

TrimPrefix(s, p) == IF HasPrefix(s, p) THEN SubSeq(s, Len(p) + 1, Len(s)) ELSE s

TrimSuffix(s, p) == IF HasSuffix(s, p) THEN SubSeq(s, 1, Len(s) - Len(p)) ELSE s

\* sub occurs in s starting at position i
OccursAt(s, sub, i) == i >= 1 /\ i + Len(sub) - 1 <= Len(s) /\ SubSeq(s, i, i + Len(sub) - 1) = sub

Contains(s, sub) == \E i \in 1..(Len(s) + 1) : OccursAt(s, sub, i)

\* strings.Split(s, sep) for a one-character separator: always at least one part
RECURSIVE SplitFrom(_, _, _, _)
SplitFrom(s, sep, i, cur) ==
    IF i > Len(s) THEN <<cur>>
    ELSE IF s[i] = sep THEN <<cur>> \o SplitFrom(s, sep, i + 1, <<>>)
    ELSE SplitFrom(s, sep, i + 1, Append(cur, s[i]))

Split(s, sep) == SplitFrom(s, sep, 1, <<>>)

\* strings.Fields: the maximal runs of non-space characters
RECURSIVE FieldsFrom(_, _, _)
FieldsFrom(s, i, cur) ==
    IF i > Len(s) THEN (IF cur = <<>> THEN <<>> ELSE <<cur>>)
    ELSE IF s[i] \in SpaceChars
         THEN (IF cur = <<>> THEN <<>> ELSE <<cur>>) \o FieldsFrom(s, i + 1, <<>>)
         ELSE FieldsFrom(s, i + 1, Append(cur, s[i]))

Fields(s) == FieldsFrom(s, 1, <<>>)

RECURSIVE TrimLeftSpace(_)
TrimLeftSpace(s) ==
    IF s # <<>> /\ s[1] \in SpaceChars THEN TrimLeftSpace(Tail(s)) ELSE s

RECURSIVE TrimRightSpace(_)
TrimRightSpace(s) ==
    IF s # <<>> /\ s[Len(s)] \in SpaceChars THEN TrimRightSpace(SubSeq(s, 1, Len(s) - 1)) ELSE s

TrimSpace(s) == TrimRightSpace(TrimLeftSpace(s))

RECURSIVE JoinWith(_, _)
JoinWith(parts, sep) ==
    IF parts = <<>> THEN <<>>
    ELSE IF Len(parts) = 1 THEN parts[1]
    ELSE parts[1] \o sep \o JoinWith(Tail(parts), sep)

(***************************************************************************)
(* Go's path/filepath package (Unix separators).                           *)
(***************************************************************************)
RECURSIVE StripTrailingSlashes(_)
StripTrailingSlashes(p) ==
    IF p # <<>> /\ p[Len(p)] = "/" THEN StripTrailingSlashes(SubSeq(p, 1, Len(p) - 1)) ELSE p

\* filepath.Base: the last element of the path
Base(path) ==
    IF path = <<>> THEN <<".">>
    ELSE LET p == StripTrailingSlashes(path)
             parts == Split(p, "/")
             last == parts[Len(parts)]
         IN  IF p = <<>> THEN <<"/">> ELSE last

\* filepath.Ext: the suffix starting at the final dot of the last element
Ext(path) ==
    LET parts == Split(path, "/")
        last == parts[Len(parts)]
        dots == {i \in 1..Len(last) : last[i] = "."}
    IN  IF dots = {} THEN <<>>
        ELSE LET d == CHOOSE i \in dots : \A j \in dots : j <= i
             IN  SubSeq(last, d, Len(last))

\* filepath.Clean's walk over the elements: "." and empty elements are dropped,
\* ".." removes the element before it (or is kept when the path is not rooted)
RECURSIVE CleanParts(_, _, _)
CleanParts(parts, out, rooted) ==
    IF parts = <<>> THEN out
    ELSE LET e == parts[1]
             rest == Tail(parts)
         IN  IF e = <<>> \/ e = <<".">> THEN CleanParts(rest, out, rooted)
             ELSE IF e = <<".", ".">>
                  THEN IF out # <<>> /\ out[Len(out)] # <<".", ".">>
                       THEN CleanParts(rest, SubSeq(out, 1, Len(out) - 1), rooted)
                       ELSE IF rooted THEN CleanParts(rest, out, rooted)
                       ELSE CleanParts(rest, Append(out, e), rooted)
                  ELSE CleanParts(rest, Append(out, e), rooted)

Clean(path) ==
    IF path = <<>> THEN <<".">>
    ELSE LET rooted == path[1] = "/"
             body == JoinWith(CleanParts(Split(path, "/"), <<>>, rooted), <<"/">>)
             res == IF rooted THEN <<"/">> \o body ELSE body
         IN  IF res = <<>> THEN <<".">> ELSE res

\* filepath.Join of two elements: empty elements are ignored, the result is Cleaned
Join(dir, name) ==
    IF dir = <<>> /\ name = <<>> THEN <<>>
    ELSE IF dir = <<>> THEN Clean(name)
    ELSE IF name = <<>> THEN Clean(dir)
    ELSE Clean(dir \o <<"/">> \o name)

(***************************************************************************)
(* utils/hash.go                                                           *)
(***************************************************************************)
\* the names GetHasher's switch accepts, in the order of ListSupportedAlgorithms
SupportedAlgorithms ==
    << <<"b", "l", "a", "k", "e", "2", "b">>, <<"b", "l", "a", "k", "e", "2", "s">>, <<"c", "r", "c", "3", "2">>, <<"m", "d", "5">>, <<"s", "h", "a", "2", "2", "4">>, <<"s", "h", "a", "3", "8", "4">>,
       <<"s", "h", "a", "2", "5", "6">>, <<"s", "h", "a", "1">>, <<"s", "h", "a", "5", "1", "2">>, <<"s", "h", "a", "3", "-", "2", "2", "4">>, <<"s", "h", "a", "3", "-", "3", "8", "4">>,
       <<"s", "h", "a", "3", "-", "2", "5", "6">>, <<"s", "h", "a", "3", "-", "5", "1", "2">> >>

\* the keys of the algorithmExts map
MutAlgorithmExtsWithSha3 ==
    { <<".", "s", "h", "a", "2", "5", "6">>, <<".", "s", "h", "a", "5", "1", "2">>, <<".", "s", "h", "a", "1">>, <<".", "c", "r", "c", "3", "2">>, <<".", "m", "d", "5">>, <<".", "s", "h", "a", "2", "2", "4">>,
      <<".", "s", "h", "a", "3", "8", "4">>, <<".", "s", "h", "a", "3", "-", "2", "5", "6">>, <<".", "s", "h", "a", "3", "-", "5", "1", "2">>, <<".", "s", "h", "a", "3", "-", "2", "2", "4">>, <<".", "s", "h", "a", "3", "-", "3", "8", "4">>,
      <<".", "b", "l", "a", "k", "e", "2", "s">>, <<".", "b", "l", "a", "k", "e", "2", "b">>, <<".", "s", "h", "a", "3">> }

algorithmExts ==
    { <<".", "s", "h", "a", "2", "5", "6">>, <<".", "s", "h", "a", "5", "1", "2">>, <<".", "s", "h", "a", "1">>, <<".", "c", "r", "c", "3", "2">>, <<".", "m", "d", "5">>, <<".", "s", "h", "a", "2", "2", "4">>,
      <<".", "s", "h", "a", "3", "8", "4">>, <<".", "s", "h", "a", "3", "-", "2", "5", "6">>, <<".", "s", "h", "a", "3", "-", "5", "1", "2">>, <<".", "s", "h", "a", "3", "-", "2", "2", "4">>, <<".", "s", "h", "a", "3", "-", "3", "8", "4">>,
      <<".", "b", "l", "a", "k", "e", "2", "s">>, <<".", "b", "l", "a", "k", "e", "2", "b">> }

DefaultAlgorithmForGenericChecksums == <<"s", "h", "a", "2", "5", "6">>

MutGetHasherCaseSensitive(algorithm) ==
    \E i \in DOMAIN SupportedAlgorithms : SupportedAlgorithms[i] = algorithm

\* GetHasher returns a hasher (TRUE) or the unsupported-algorithm error (FALSE)
GetHasher(algorithm) ==
    \E i \in DOMAIN SupportedAlgorithms : SupportedAlgorithms[i] = ToLower(algorithm)

HexDigits == <<"0", "1", "2", "3", "4", "5", "6", "7", "8", "9", "a", "b", "c", "d", "e", "f">>


(***************************************************************************)
(* The file system: a function from the (cleaned) paths of the existing    *)
(* files to their contents.                                                *)
(***************************************************************************)
NoFiles == [p \in {} |-> <<>>]

Exists(fs, path) == path \in DOMAIN fs

WriteFile(fs, path, content) ==
    [p \in (DOMAIN fs) \cup {path} |-> IF p = path THEN content ELSE fs[p]]

\* os.Remove
Remove(fs, path) == [p \in (DOMAIN fs) \ {path} |-> fs[p]]

(***************************************************************************)
(* The contents the model works with.  The bytes of a release asset are    *)
(* one line of text; a checksum manifest is a sequence of lines.           *)
(***************************************************************************)
BodyA == << <<"A", "1">>, <<"A", "2">> >>

BodyB == << <<"B", "1">>, <<"B", "2">> >>

AssetBodies == <<BodyA, BodyB>>

\* The digest functions of crypto/* and x/crypto are not modelled bit by bit:
\* (algorithm, content) pairs are told apart by the digest, which is lowercase
\* hexadecimal as hex.EncodeToString produces it.  Every content that is not an
\* asset body shares the tag 0.
ContentTag(content) ==
    IF \E i \in DOMAIN AssetBodies : AssetBodies[i] = content
    THEN HexDigits[1 + (CHOOSE i \in DOMAIN AssetBodies : AssetBodies[i] = content)]
    ELSE HexDigits[1]

AlgorithmTag(algoLower) ==
    HexDigits[1 + (CHOOSE i \in DOMAIN SupportedAlgorithms : SupportedAlgorithms[i] = algoLower)]

HexSum(algoLower, content) == <<"d", AlgorithmTag(algoLower), ContentTag(content)>>

\* HashFile: open the file, build the hasher, read the file, encode the sum.
\* readFails is the environment's answer for the read (io.Copy into the hasher).
HashFile(fs, assetPath, algorithm, readFails) ==
    LET safeFile == Clean(assetPath)
    IN  IF ~Exists(fs, safeFile) THEN [ok |-> FALSE, err |-> "open", sum |-> <<>>]
        ELSE IF ~GetHasher(algorithm) THEN [ok |-> FALSE, err |-> "unsupported", sum |-> <<>>]
        ELSE IF readFails THEN [ok |-> FALSE, err |-> "read", sum |-> <<>>]
        ELSE [ok |-> TRUE, err |-> "none", sum |-> HexSum(ToLower(algorithm), fs[safeFile])]

AllDigits(s) == \A i \in 1..Len(s) : s[i] \in Digits

\* ^(sha\d*sums?(\.txt)?|md5sums?(\.txt)?|checksums\.txt)$ on a lowercased name
WholeNameIsManifest(s) ==
    \/ \E optS \in {<<>>, <<"s">>}, optTxt \in {<<>>, <<".", "t", "x", "t">>} :
          LET tail == <<"s", "u", "m">> \o optS \o optTxt
          IN  /\ HasSuffix(s, tail)
              /\ HasPrefix(TrimSuffix(s, tail), <<"s", "h", "a">>)
              /\ Len(TrimSuffix(s, tail)) >= 3
              /\ AllDigits(TrimPrefix(TrimSuffix(s, tail), <<"s", "h", "a">>))
    \/ \E optS \in {<<>>, <<"s">>}, optTxt \in {<<>>, <<".", "t", "x", "t">>} :
          s = <<"m", "d", "5", "s", "u", "m">> \o optS \o optTxt
    \/ s = <<"c", "h", "e", "c", "k", "s", "u", "m", "s", ".", "t", "x", "t">>

\* checksumFileRegex.MatchString: the anchored alternative, or "checksum"
\* (with its optional "s" and ".txt") anywhere in the name; (?i) folds case
checksumFileRegex(name) ==
    LET s == Fold(name)
    IN  WholeNameIsManifest(s) \/ Contains(s, <<"c", "h", "e", "c", "k", "s", "u", "m">>)

MutIsChecksumFileExtCaseSensitive(filePath) ==
    \/ checksumFileRegex(Base(filePath))
    \/ Ext(filePath) \in algorithmExts

IsChecksumFile(filePath) ==
    \/ checksumFileRegex(Base(filePath))
    \/ Ext(ToLower(filePath)) \in algorithmExts

GetAlgorithmFromFilename(filename) ==
    LET ext == Ext(ToLower(filename))
    IN  IF ext \in algorithmExts
        THEN [name |-> TrimPrefix(ext, <<".">>), found |-> TRUE]
        ELSE [name |-> <<>>, found |-> FALSE]

(***************************************************************************)
(* utils/os.go                                                             *)
(***************************************************************************)
packageExts ==
    [f \in {"debian", "rhel", "suse", "alpine"} |->
        CASE f = "debian" -> <<"d", "e", "b">>
          [] f = "rhel" -> <<"r", "p", "m">>
          [] f = "suse" -> <<"r", "p", "m">>
          [] f = "alpine" -> <<"a", "p", "k">>]

\* DetectOS: the package extension of the host's platform family, "" when the
\* family is not in the table
DetectOS(family) == IF family \in DOMAIN packageExts THEN packageExts[family] ELSE <<>>

ListSupportedSystemPackages == << <<"d", "e", "b">>, <<"r", "p", "m">>, <<"a", "p", "k">> >>

GetExtension(filename) ==
    LET cleanExt == TrimPrefix(Ext(filename), <<".">>)
    IN  IF \E i \in DOMAIN ListSupportedSystemPackages : ListSupportedSystemPackages[i] = cleanExt
        THEN cleanExt
        ELSE <<>>

(***************************************************************************)
(* utils: GetOSArch, MatchFile, ParseChecksumFile, VerifyChecksum          *)
(***************************************************************************)
\* the alternative names GetOSArch adds for an architecture
ArchSynonyms(arch) ==
    CASE arch = <<"a", "m", "d", "6", "4">> -> << <<"x", "8", "6", "_", "6", "4">> >>
      [] arch = <<"3", "8", "6">> -> << <<"i", "3", "8", "6">> >>
      [] arch = <<"a", "r", "m", "6", "4">> -> << <<"a", "a", "r", "c", "h", "6", "4">> >>
      [] OTHER -> <<>>

\* The three patterns GetOSArch compiles for one architecture name:
\*   "sep"  (?i).*A[-_/]B.*          A, one separator, B
\*   "both" (?i)(.*A.*B.*|.*B.*A.*)  A and B in either order, with no line
\*                                   feed between them
PatternsFor(osName, archPattern) ==
    << [kind |-> "sep", a |-> osName, b |-> archPattern],
       [kind |-> "sep", a |-> archPattern, b |-> osName],
       [kind |-> "both", a |-> osName, b |-> archPattern] >>

RECURSIVE AllPatterns(_, _)
AllPatterns(osName, archPatterns) ==
    IF archPatterns = <<>> THEN <<>>
    ELSE PatternsFor(osName, archPatterns[1]) \o AllPatterns(osName, Tail(archPatterns))

\* GetOSArch: the value it stores in osArchRegexes for runtime.GOOS/GOARCH
GetOSArch(goos, goarch) == AllPatterns(goos, <<goarch>> \o ArchSynonyms(goarch))

Separators == {"-", "_", "/"}

\* what ".*" can match: the characters from..to of s hold no line feed (the
\* patterns are compiled without the s flag)
OnOneLine(s, from, to) == \A k \in from..to : s[k] # "\n"

MutMatchStringCaseSensitive(re, file) ==
    IF re.kind = "sep"
    THEN \E i \in 1..Len(file) :
            /\ OccursAt(file, re.a, i)
            /\ i + Len(re.a) <= Len(file)
            /\ file[i + Len(re.a)] \in Separators
            /\ OccursAt(file, re.b, i + Len(re.a) + 1)
    ELSE \E i, j \in 1..Len(file) :
            /\ OccursAt(file, re.a, i)
            /\ OccursAt(file, re.b, j)
            /\ \/ j >= i + Len(re.a) /\ OnOneLine(file, i + Len(re.a), j - 1)
               \/ i >= j + Len(re.b) /\ OnOneLine(file, j + Len(re.b), i - 1)

\* regexp.MatchString of one compiled pattern (unanchored, case folded)
MatchString(re, file) ==
    LET s == Fold(file)
        a == Fold(re.a)
        b == Fold(re.b)
    IN  IF re.kind = "sep"
        THEN \E i \in 1..Len(s) :
                /\ OccursAt(s, a, i)
                /\ i + Len(a) <= Len(s)
                /\ s[i + Len(a)] \in Separators
                /\ OccursAt(s, b, i + Len(a) + 1)
        ELSE \E i, j \in 1..Len(s) :
                /\ OccursAt(s, a, i)
                /\ OccursAt(s, b, j)
                /\ \/ j >= i + Len(a) /\ OnOneLine(s, i + Len(a), j - 1)
                   \/ i >= j + Len(b) /\ OnOneLine(s, j + Len(b), i - 1)

MutMatchFileUninitialisedMatches(regexes, file) ==
    \/ Len(regexes) = 0
    \/ \E i \in DOMAIN regexes : MatchString(regexes[i], file)

MatchFile(regexes, file) ==
    /\ Len(regexes) # 0
    /\ \E i \in DOMAIN regexes : MatchString(regexes[i], file)

\* The answers of the bufio.Scanner that reads the manifest.  NoScanError: it
\* reads the file to its end.  ScanError(k, n): the read fails inside line k
\* after n characters of that line (or line k is longer than
\* bufio.MaxScanTokenSize, with n = 0); the k-1 lines before it were delivered.
NoScanError == [failsAt |-> 0, read |-> 0]

ScanError(k, n) == [failsAt |-> k, read |-> n]

ScanAnswers(lines) ==
    {NoScanError, ScanError(Len(lines) + 1, 0)}
    \cup UNION { {ScanError(k, n) : n \in 0..Len(lines[k])} : k \in 1..Len(lines) }

\* bufio's dropCR: a token loses one carriage return at its end
dropCR(data) ==
    IF data # <<>> /\ data[Len(data)] = "\r" THEN SubSeq(data, 1, Len(data) - 1) ELSE data

\* The tokens scanner.Scan() delivers.  After a read error Scan hands the
\* characters it has read of the broken line to bufio.ScanLines as the rest of
\* the input, and ScanLines returns a rest that is not empty as a last token.
Scanned(lines, scan) ==
    IF scan.failsAt = 0 THEN lines
    ELSE SubSeq(lines, 1, scan.failsAt - 1)
         \o (IF scan.read > 0
             THEN <<dropCR(SubSeq(lines[scan.failsAt], 1, scan.read))>>
             ELSE <<>>)

RECURSIVE MutScanLinesSecondToken(_, _, _, _)
MutScanLinesSecondToken(tokens, i, targetFilename, scanErr) ==
    IF i > Len(tokens)
    THEN (IF scanErr THEN [ok |-> FALSE, err |-> "read", sum |-> <<>>]
          ELSE [ok |-> FALSE, err |-> "notfound", sum |-> <<>>])
    ELSE LET line == TrimSpace(tokens[i])
             parts == Fields(line)
         IN  IF line = <<>> \/ HasPrefix(line, <<"#">>)
             THEN MutScanLinesSecondToken(tokens, i + 1, targetFilename, scanErr)
             ELSE IF Len(parts) < 2 THEN MutScanLinesSecondToken(tokens, i + 1, targetFilename, scanErr)
             ELSE IF TrimPrefix(TrimPrefix(parts[2], <<"*">>), <<".", "/">>) = targetFilename
             THEN [ok |-> TRUE, err |-> "none", sum |-> parts[1]]
             ELSE MutScanLinesSecondToken(tokens, i + 1, targetFilename, scanErr)

\* ParseChecksumFile's scan from token i on: the loop over scanner.Scan(), then
\* the check of scanner.Err() (scanErr: it is set), then the not-found error
RECURSIVE ScanLines(_, _, _, _)
ScanLines(tokens, i, targetFilename, scanErr) ==
    IF i > Len(tokens)
    THEN (IF scanErr THEN [ok |-> FALSE, err |-> "read", sum |-> <<>>]
          ELSE [ok |-> FALSE, err |-> "notfound", sum |-> <<>>])
    ELSE LET line == TrimSpace(tokens[i])
             parts == Fields(line)
         IN  IF line = <<>> \/ HasPrefix(line, <<"#">>) THEN ScanLines(tokens, i + 1, targetFilename, scanErr)
             ELSE IF Len(parts) < 2 THEN ScanLines(tokens, i + 1, targetFilename, scanErr)
             ELSE LET checksum == parts[1]
                      filenameInChecksum ==
                          TrimPrefix(TrimPrefix(parts[Len(parts)], <<"*">>), <<".", "/">>)
                  IN  IF filenameInChecksum = targetFilename
                      THEN [ok |-> TRUE, err |-> "none", sum |-> checksum]
                      ELSE ScanLines(tokens, i + 1, targetFilename, scanErr)

\* ParseChecksumFile(checksumFilePath, targetFilename); scan is the
\* scanner's answer
ParseChecksumFile(fs, checksumFilePath, targetFilename, scan) ==
    LET safeChecksumFile == Clean(checksumFilePath)
    IN  IF ~Exists(fs, safeChecksumFile) THEN [ok |-> FALSE, err |-> "open", sum |-> <<>>]
        ELSE ScanLines(Scanned(fs[safeChecksumFile], scan), 1, targetFilename,
                       scan.failsAt # 0)

\* the values the error of ParseChecksumFile is formatted from
ParseChecksumFileError(r, checksumFilePath, targetFilename) ==
    IF r.err = "open" THEN <<"open", Clean(checksumFilePath)>>
    ELSE IF r.err = "read" THEN <<"read", checksumFilePath>>
    ELSE IF r.err = "notfound" THEN <<"notfound", targetFilename, checksumFilePath>>
    ELSE <<>>


MutParseArgsSplitsSlashFirst(argString) ==
    LET bad == [ok |-> FALSE, Owner |-> <<>>, Repo |-> <<>>, Version |-> <<>>]
        orParts == Split(argString, "/")
        hasAt == Contains(argString, <<"@">>)
        parts == IF Len(orParts) = 2 THEN Split(orParts[2], "@") ELSE <<>>
    IN  IF Len(orParts) # 2 \/ orParts[1] = <<>> \/ Contains(orParts[1], <<"@">>) THEN bad
        ELSE IF ~hasAt
        THEN IF orParts[2] = <<>> THEN bad
             ELSE [ok |-> TRUE, Owner |-> orParts[1], Repo |-> orParts[2],
                   Version |-> <<"l", "a", "t", "e", "s", "t">>]
        ELSE IF Len(parts) # 2 \/ parts[1] = <<>> \/ parts[2] = <<>> THEN bad
        ELSE [ok |-> TRUE, Owner |-> orParts[1], Repo |-> parts[1], Version |-> parts[2]]

MutParseArgsEmptyVersionIsLatest(argString) ==
    LET bad == [ok |-> FALSE, Owner |-> <<>>, Repo |-> <<>>, Version |-> <<>>]
        parts == Split(argString, "@")
        hasAt == Contains(argString, <<"@">>)
        ownerRepoPart == IF hasAt THEN parts[1] ELSE argString
        orParts == Split(ownerRepoPart, "/")
        version == IF hasAt /\ parts[2] # <<>> THEN parts[2] ELSE <<"l", "a", "t", "e", "s", "t">>
    IN  IF hasAt /\ Len(parts) # 2 THEN bad
        ELSE IF Len(orParts) # 2 \/ orParts[1] = <<>> \/ orParts[2] = <<>> THEN bad
        ELSE [ok |-> TRUE, Owner |-> orParts[1], Repo |-> orParts[2], Version |-> version]

\* ParseArgs: owner/repo[@version]
ParseArgs(argString) ==
    LET bad == [ok |-> FALSE, Owner |-> <<>>, Repo |-> <<>>, Version |-> <<>>]
        parts == Split(argString, "@")
        hasAt == Contains(argString, <<"@">>)
        ownerRepoPart == IF hasAt THEN parts[1] ELSE argString
        orParts == Split(ownerRepoPart, "/")
        version == IF hasAt THEN parts[2] ELSE <<"l", "a", "t", "e", "s", "t">>
    IN  IF hasAt /\ Len(parts) # 2 THEN bad
        ELSE IF hasAt /\ version = <<>> THEN bad
        ELSE IF Len(orParts) # 2 \/ orParts[1] = <<>> \/ orParts[2] = <<>> THEN bad
        ELSE IF Contains(orParts[1], <<"/">>) \/ Contains(orParts[1], <<"@">>) THEN bad
        ELSE IF Contains(orParts[2], <<"/">>) \/ Contains(orParts[2], <<"@">>) THEN bad
        ELSE [ok |-> TRUE, Owner |-> orParts[1], Repo |-> orParts[2], Version |-> version]

\* What VerifyChecksum returns: (valid, algorithm, error).  The error is kept as
\* its kind together with the values its message is formatted from.
VerifyResult(valid, algo, err, asset, name, expected, actual) ==
    [valid |-> valid, algo |-> algo, err |-> err,
     asset |-> asset, name |-> name, expected |-> expected, actual |-> actual]

MutCompareChecksumsExact(assetPathOnDisk, assetNameInChecksumFile, determinedAlgorithm, parsed, hashed) ==
    IF ~parsed.ok
    THEN VerifyResult(FALSE, determinedAlgorithm, "parse", <<>>,
                      assetNameInChecksumFile, <<>>, <<>>)
    ELSE IF ~hashed.ok
    THEN VerifyResult(FALSE, determinedAlgorithm, "hash", assetPathOnDisk, <<>>, <<>>, <<>>)
    ELSE IF parsed.sum = hashed.sum
    THEN VerifyResult(TRUE, determinedAlgorithm, "none", <<>>, <<>>, <<>>, <<>>)
    ELSE VerifyResult(FALSE, determinedAlgorithm, "mismatch", assetPathOnDisk,
                      assetNameInChecksumFile, parsed.sum, hashed.sum)

\* VerifyChecksum from the parsed manifest on: the parse error, the hash error,
\* the case-insensitive comparison and the mismatch error with its four values
CompareChecksums(assetPathOnDisk, assetNameInChecksumFile, determinedAlgorithm, parsed, hashed) ==
    IF ~parsed.ok
    THEN VerifyResult(FALSE, determinedAlgorithm, "parse", <<>>,
                      assetNameInChecksumFile, <<>>, <<>>)
    ELSE IF ~hashed.ok
    THEN VerifyResult(FALSE, determinedAlgorithm, "hash", assetPathOnDisk, <<>>, <<>>, <<>>)
    ELSE IF EqualFold(parsed.sum, hashed.sum)
    THEN VerifyResult(TRUE, determinedAlgorithm, "none", <<>>, <<>>, <<>>, <<>>)
    ELSE VerifyResult(FALSE, determinedAlgorithm, "mismatch", assetPathOnDisk,
                      assetNameInChecksumFile, parsed.sum, hashed.sum)

\* VerifyChecksum once the algorithm is determined: the hasher check, then the
\* manifest is parsed and the asset hashed
VerifyWithAlgorithm(fs, assetPathOnDisk, assetNameInChecksumFile, checksumFilePath, determinedAlgorithm, readFails, scan) ==
    IF ~GetHasher(determinedAlgorithm)
    THEN VerifyResult(FALSE, determinedAlgorithm, "unsupported", <<>>, <<>>, <<>>, <<>>)
    ELSE CompareChecksums(assetPathOnDisk, assetNameInChecksumFile, determinedAlgorithm,
                          ParseChecksumFile(fs, checksumFilePath, assetNameInChecksumFile, scan),
                          HashFile(fs, assetPathOnDisk, determinedAlgorithm, readFails))

\* VerifyChecksum(assetPathOnDisk, assetNameInChecksumFile, checksumFilePath,
\* defaultAlgoForGeneric); readFails is the environment's answer for HashFile's
\* read, scan the one for the scan of the manifest.  The algorithm is the checksum file's extension when that names one,
\* else the default, and an error when the default is empty.
VerifyChecksum(fs, assetPathOnDisk, assetNameInChecksumFile, checksumFilePath, defaultAlgoForGeneric, readFails, scan) ==
    LET fromExt == GetAlgorithmFromFilename(checksumFilePath)
    IN  IF ~fromExt.found /\ defaultAlgoForGeneric = <<>>
        THEN VerifyResult(FALSE, <<>>, "noalgorithm", <<>>, <<>>, <<>>, <<>>)
        ELSE VerifyWithAlgorithm(fs, assetPathOnDisk, assetNameInChecksumFile,
                                 checksumFilePath,
                                 IF fromExt.found THEN fromExt.name
                                                  ELSE defaultAlgoForGeneric,
                                 readFails, scan)

\* The call at cmd/root.go:1572 passes three arguments (asset path, checksum file,
\* default algorithm).  The revision of VerifyChecksum with that signature looks
\* the entry up under the base name of the asset path: utils/hash_test.go calls it
\* with <dir>/<name> against a manifest listing <name>, and expects "not found"
\* naming mismatch_asset.dat for <dir>/mismatch_asset.dat, and an error for an
\* unsupported algorithm.  What it returns for two different digests no test
\* says: it is taken from its caller, which reads valid = false with a nil error
\* as "checksums didn't match" and goes on to fail with the mismatch itself, as
\* the verification orchestrator of the specification does.
VerifyChecksumByPath(fs, assetPath, checksumFilePath, defaultAlgoForGeneric, readFails, scan) ==
    LET vc == VerifyChecksum(fs, assetPath, Base(assetPath), checksumFilePath,
                             defaultAlgoForGeneric, readFails, scan)
    IN  IF vc.err = "mismatch"
        THEN VerifyResult(FALSE, vc.algo, "none", <<>>, <<>>, <<>>, <<>>)
        ELSE vc

(***************************************************************************)
(* cmd/root.go                                                             *)
(***************************************************************************)
\* xdg.BinHome, the default target directory
XdgBinHome == <<"/", "h", "/", "b", "i", "n">>

\* saveAssetToFile(rc, localPath, ...).  The stream delivers `copied` lines of
\* body before it fails (all of them: no failure); createFails, closeFails and
\* removeFails are the environment's answers for os.Create, file.Close and the
\* os.Remove of the cleanup after a copy error, whose error is discarded: the
\* part written stays in the file when that removal fails.  closeErr is the
\* close error the function logs, which it does only after a complete copy.
MutSaveFailsOnCloseError(fs, localPath, body, createFails, copied, closeFails, removeFails) ==
    IF createFails THEN [fs |-> fs, err |-> "create", closeErr |-> FALSE]
    ELSE IF copied < Len(body)
    THEN [fs |-> IF removeFails THEN WriteFile(fs, localPath, SubSeq(body, 1, copied))
                 ELSE Remove(WriteFile(fs, localPath, SubSeq(body, 1, copied)), localPath),
          err |-> "copy", closeErr |-> FALSE]
    ELSE IF closeFails
    THEN [fs |-> Remove(WriteFile(fs, localPath, body), localPath),
          err |-> "close", closeErr |-> TRUE]
    ELSE [fs |-> WriteFile(fs, localPath, body), err |-> "none", closeErr |-> FALSE]

saveAssetToFile(fs, localPath, body, createFails, copied, closeFails, removeFails) ==
    IF createFails THEN [fs |-> fs, err |-> "create", closeErr |-> FALSE]
    ELSE IF copied < Len(body)
    THEN [fs |-> IF removeFails THEN WriteFile(fs, localPath, SubSeq(body, 1, copied))
                 ELSE Remove(WriteFile(fs, localPath, SubSeq(body, 1, copied)), localPath),
          err |-> "copy", closeErr |-> FALSE]
    ELSE [fs |-> WriteFile(fs, localPath, body), err |-> "none", closeErr |-> closeFails]

\* The answers of client.Repositories.DownloadReleaseAsset: an error, a redirect
\* URL without a reader, neither, a reader, or a reader with a redirect URL.
Responses == {"error", "redirect", "nothing", "stream", "streamAndRedirect"}

\* downloadAndSaveAsset(asset, targetSavePath): called tells whether the download
\* collaborator was asked for the asset's bytes; saved is saveAssetToFile's
\* result when it ran
MutDownloadCreatesFileBeforeRequest(fs, asset, targetSavePath, resp, body, createFails, copied, closeFails, removeFails) ==
    LET created == WriteFile(fs, targetSavePath, <<>>)
        saved == saveAssetToFile(created, targetSavePath, body, createFails, copied, closeFails,
                                 removeFails)
    IN  IF ~asset.hasName \/ ~asset.hasID \/ ~asset.hasSize
        THEN [fs |-> fs, filePath |-> <<>>, err |-> "malformed", called |-> FALSE,
              saveRan |-> FALSE, closeErr |-> FALSE]
        ELSE IF resp = "error"
        THEN [fs |-> created, filePath |-> <<>>, err |-> "initiate", called |-> TRUE,
              saveRan |-> FALSE, closeErr |-> FALSE]
        ELSE IF resp = "redirect"
        THEN [fs |-> created, filePath |-> <<>>, err |-> "redirect", called |-> TRUE,
              saveRan |-> FALSE, closeErr |-> FALSE]
        ELSE IF resp = "nothing"
        THEN [fs |-> created, filePath |-> <<>>, err |-> "nostream", called |-> TRUE,
              saveRan |-> FALSE, closeErr |-> FALSE]
        ELSE [fs |-> saved.fs, filePath |-> targetSavePath, err |-> saved.err, called |-> TRUE,
              saveRan |-> TRUE, closeErr |-> saved.closeErr]

downloadAndSaveAsset(fs, asset, targetSavePath, resp, body, createFails, copied, closeFails, removeFails) ==
    LET saved == saveAssetToFile(fs, targetSavePath, body, createFails, copied, closeFails,
                                 removeFails)
    IN  IF ~asset.hasName \/ ~asset.hasID \/ ~asset.hasSize
        THEN [fs |-> fs, filePath |-> <<>>, err |-> "malformed", called |-> FALSE,
              saveRan |-> FALSE, closeErr |-> FALSE]
        ELSE IF resp = "error"
        THEN [fs |-> fs, filePath |-> <<>>, err |-> "initiate", called |-> TRUE,
              saveRan |-> FALSE, closeErr |-> FALSE]
        ELSE IF resp = "redirect"
        THEN [fs |-> fs, filePath |-> <<>>, err |-> "redirect", called |-> TRUE,
              saveRan |-> FALSE, closeErr |-> FALSE]
        ELSE IF resp = "nothing"
        THEN [fs |-> fs, filePath |-> <<>>, err |-> "nostream", called |-> TRUE,
              saveRan |-> FALSE, closeErr |-> FALSE]
        ELSE [fs |-> saved.fs, filePath |-> targetSavePath, err |-> saved.err, called |-> TRUE,
              saveRan |-> TRUE, closeErr |-> saved.closeErr]

\* The scan of findDownloadAndVerifyAsset over the release assets from index i
\* on; main and checksum are the indices chosen so far (0: none yet).
RECURSIVE MutScanMatchBeforeChecksum(_, _, _, _, _)
MutScanMatchBeforeChecksum(regexes, assets, i, main, checksum) ==
    IF i > Len(assets) THEN [main |-> main, checksum |-> checksum]
    ELSE LET asset == assets[i]
         IN  IF ~asset.hasName \/ ~asset.hasID
             THEN MutScanMatchBeforeChecksum(regexes, assets, i + 1, main, checksum)
             ELSE IF MatchFile(regexes, asset.Name)
             THEN MutScanMatchBeforeChecksum(regexes, assets, i + 1,
                                             IF main = 0 THEN i ELSE main, checksum)
             ELSE IF IsChecksumFile(asset.Name)
             THEN MutScanMatchBeforeChecksum(regexes, assets, i + 1, main,
                                             IF checksum = 0 THEN i ELSE checksum)
             ELSE MutScanMatchBeforeChecksum(regexes, assets, i + 1, main, checksum)

RECURSIVE MutScanLastChecksumWins(_, _, _, _, _)
MutScanLastChecksumWins(regexes, assets, i, main, checksum) ==
    IF i > Len(assets) THEN [main |-> main, checksum |-> checksum]
    ELSE LET asset == assets[i]
         IN  IF ~asset.hasName \/ ~asset.hasID
             THEN MutScanLastChecksumWins(regexes, assets, i + 1, main, checksum)
             ELSE IF IsChecksumFile(asset.Name)
             THEN MutScanLastChecksumWins(regexes, assets, i + 1, main, i)
             ELSE IF MatchFile(regexes, asset.Name)
             THEN MutScanLastChecksumWins(regexes, assets, i + 1,
                                          IF main = 0 THEN i ELSE main, checksum)
             ELSE MutScanLastChecksumWins(regexes, assets, i + 1, main, checksum)

RECURSIVE MutScanChecksumFileMayBeMain(_, _, _, _, _)
MutScanChecksumFileMayBeMain(regexes, assets, i, main, checksum) ==
    IF i > Len(assets) THEN [main |-> main, checksum |-> checksum]
    ELSE LET asset == assets[i]
         IN  IF ~asset.hasName \/ ~asset.hasID
             THEN MutScanChecksumFileMayBeMain(regexes, assets, i + 1, main, checksum)
             ELSE MutScanChecksumFileMayBeMain(regexes, assets, i + 1,
                     IF main = 0 /\ MatchFile(regexes, asset.Name) THEN i ELSE main,
                     IF checksum = 0 /\ IsChecksumFile(asset.Name) THEN i ELSE checksum)

RECURSIVE ScanAssets(_, _, _, _, _)
ScanAssets(regexes, assets, i, main, checksum) ==
    IF i > Len(assets) THEN [main |-> main, checksum |-> checksum]
    ELSE LET asset == assets[i]
         IN  IF ~asset.hasName \/ ~asset.hasID
             THEN ScanAssets(regexes, assets, i + 1, main, checksum)
             ELSE IF IsChecksumFile(asset.Name)
             THEN ScanAssets(regexes, assets, i + 1, main,
                             IF checksum = 0 THEN i ELSE checksum)
             ELSE IF MatchFile(regexes, asset.Name)
             THEN ScanAssets(regexes, assets, i + 1, IF main = 0 THEN i ELSE main, checksum)
             ELSE ScanAssets(regexes, assets, i + 1, main, checksum)

\* the name the main asset is saved under: --binName, else the asset name up to
\* its first underscore (the whole name when it has none)
FinalMainAssetSaveName(binName, assetName) ==
    IF binName # <<>> THEN binName
    ELSE Split(assetName, "_")[1]

\* the directory the main asset is saved in: --path, "." or xdg.BinHome
TargetMainAssetDir(path) ==
    IF path # <<>> /\ path # <<".">> THEN Clean(path)
    ELSE IF path = <<".">> THEN <<".">>
    ELSE XdgBinHome

TargetMainAssetSavePath(binName, path, assetName) ==
    Join(TargetMainAssetDir(path), FinalMainAssetSaveName(binName, assetName))

\* the checksum file is saved in the current directory under its own name
TargetChecksumAssetSavePath(assetName) == Clean(Base(assetName))

\* verifyAssetChecksum(mainAssetDiskPath, mainAssetOriginalName, checksumAssetPath).
\* outcome: "ok" (returns nil), "error" (returns an error), "fatal" (log.Fatalf
\* ends the process).  readFails1/readFails2 are the environment's answers for
\* the two reads of the main asset, rmFails and rmMainFails for the removal of
\* the checksum file and of the main asset (only the error of the removal after
\* a successful verification is looked at, the others are discarded),
\* scan1/scan2 for the two scans of the checksum file.
VerifyOutcome(fs, outcome, err, vc, expected, actual, rmErr) ==
    [fs |-> fs, outcome |-> outcome, err |-> err, vc |-> vc,
     expected |-> expected, actual |-> actual, rmErr |-> rmErr]

\* the cleanup of the failure paths: os.Remove of the main asset, then of the
\* checksum file, both errors discarded
RemoveBoth(fs, mainAssetDiskPath, checksumAssetPath, rmMainFails, rmFails) ==
    LET kept == IF rmMainFails THEN fs ELSE Remove(fs, mainAssetDiskPath)
    IN  IF rmFails THEN kept ELSE Remove(kept, checksumAssetPath)

MutVerifyStepsRemoveFailureFails(fs, mainAssetDiskPath, checksumAssetPath, parsed, vc, hashed, rmFails, rmMainFails) ==
    IF vc.err # "none"
    THEN VerifyOutcome(fs, "fatal", "verification", vc.err, vc.expected, vc.actual, FALSE)
    ELSE IF ~hashed.ok
    THEN VerifyOutcome(RemoveBoth(fs, mainAssetDiskPath, checksumAssetPath, rmMainFails, rmFails),
                       "error", "hash", "none", parsed.sum, <<>>, FALSE)
    ELSE IF ~EqualFold(parsed.sum, hashed.sum)
    THEN VerifyOutcome(RemoveBoth(fs, mainAssetDiskPath, checksumAssetPath, rmMainFails, rmFails),
                       "error", "mismatch", "none", parsed.sum, hashed.sum, FALSE)
    ELSE IF rmFails
    THEN VerifyOutcome(fs, "error", "remove", "none", parsed.sum, hashed.sum, TRUE)
    ELSE VerifyOutcome(Remove(fs, checksumAssetPath),
                       "ok", "none", "none", parsed.sum, hashed.sum, FALSE)

\* verifyAssetChecksum after the entry was found and VerifyChecksum returned vc
VerifySteps(fs, mainAssetDiskPath, checksumAssetPath, parsed, vc, hashed, rmFails, rmMainFails) ==
    IF vc.err # "none"
    THEN VerifyOutcome(fs, "fatal", "verification", vc.err, vc.expected, vc.actual, FALSE)
    ELSE IF ~hashed.ok
    THEN VerifyOutcome(RemoveBoth(fs, mainAssetDiskPath, checksumAssetPath, rmMainFails, rmFails),
                       "error", "hash", "none", parsed.sum, <<>>, FALSE)
    ELSE IF ~EqualFold(parsed.sum, hashed.sum)
    THEN VerifyOutcome(RemoveBoth(fs, mainAssetDiskPath, checksumAssetPath, rmMainFails, rmFails),
                       "error", "mismatch", "none", parsed.sum, hashed.sum, FALSE)
    ELSE VerifyOutcome(IF rmFails THEN fs ELSE Remove(fs, checksumAssetPath),
                       "ok", "none", "none", parsed.sum, hashed.sum, rmFails)

\* verifyAssetChecksum from its second step on: VerifyChecksum is called with the
\* disk path, the checksum path and the default algorithm, then the asset is
\* hashed again with the algorithm VerifyChecksum determined
VerifyEntry(fs, mainAssetDiskPath, checksumAssetPath, parsed, vc, readFails2, rmFails, rmMainFails) ==
    VerifySteps(fs, mainAssetDiskPath, checksumAssetPath, parsed, vc,
                HashFile(fs, mainAssetDiskPath, vc.algo, readFails2), rmFails, rmMainFails)

verifyAssetChecksum(fs, mainAssetDiskPath, mainAssetOriginalName, checksumAssetPath, readFails1, readFails2, rmFails, rmMainFails, scan1, scan2) ==
    LET parsed == ParseChecksumFile(fs, checksumAssetPath, mainAssetOriginalName, scan1)
    IN  IF ~parsed.ok
        THEN VerifyOutcome(RemoveBoth(fs, mainAssetDiskPath, checksumAssetPath,
                                      rmMainFails, rmFails),
                           "error", "noentry", "none", <<>>, <<>>, FALSE)
        ELSE VerifyEntry(fs, mainAssetDiskPath, checksumAssetPath, parsed,
                         VerifyChecksumByPath(fs, mainAssetDiskPath, checksumAssetPath,
                                              DefaultAlgorithmForGenericChecksums,
                                              readFails1, scan2),
                         readFails2, rmFails, rmMainFails)

(***************************************************************************)
(* The inputs of a run.                                                    *)
(***************************************************************************)
\* runtime.GOOS and runtime.GOARCH of the build
GOOS == <<"l", "i", "n", "u", "x">>

GOARCH == <<"a", "m", "d", "6", "4">>

\* a *github.ReleaseAsset: Name, ID, Size and ContentType are pointers, the has*
\* fields tell whether they are set
ReleaseAsset(name, id, hasName, hasID, hasSize, hasContentType) ==
    [Name |-> name, ID |-> id, hasName |-> hasName, hasID |-> hasID,
     hasSize |-> hasSize, hasContentType |-> hasContentType]

NameMain == <<"t", "_", "l", "i", "n", "u", "x", "_", "a", "m", "d", "6", "4">>

NameDeb == <<"t", "-", "l", "i", "n", "u", "x", "-", "a", "m", "d", "6", "4", ".", "d", "e", "b">>

NameSynonym == <<"t", "-", "L", "i", "n", "u", "x", "-", "x", "8", "6", "_", "6", "4">>

NameWindows == <<"t", "_", "w", "i", "n", "d", "o", "w", "s", "_", "a", "m", "d", "6", "4">>

NameSums == <<"c", "h", "e", "c", "k", "s", "u", "m", "s", ".", "t", "x", "t">>

NameSha512 == <<"t", "_", "l", "i", "n", "u", "x", "_", "a", "m", "d", "6", "4", ".", "S", "H", "A", "5", "1", "2">>

AssetUniverse ==
    { ReleaseAsset(NameMain, 1, TRUE, TRUE, TRUE, TRUE),
      ReleaseAsset(NameDeb, 2, TRUE, TRUE, TRUE, TRUE),
      ReleaseAsset(NameSums, 3, TRUE, TRUE, TRUE, TRUE),
      ReleaseAsset(NameSha512, 4, TRUE, TRUE, TRUE, TRUE),
      ReleaseAsset(<<>>, 5, FALSE, TRUE, TRUE, TRUE),
      ReleaseAsset(NameSynonym, 6, TRUE, TRUE, TRUE, FALSE),
      ReleaseAsset(NameMain, 7, TRUE, TRUE, FALSE, TRUE),
      ReleaseAsset(NameWindows, 8, TRUE, TRUE, TRUE, TRUE),
      ReleaseAsset(NameDeb, 0, TRUE, FALSE, TRUE, TRUE) }

\* the assets of the releases the runs look up: those of the universe that carry
\* a name and an ID
ReleaseAssets == {a \in AssetUniverse : a.hasName /\ a.hasID}

\* the longest release asset list of a run
MaxAssets == 2

AssetLists == UNION {[1..n -> ReleaseAssets] : n \in 0..MaxAssets}

\* the longest asset list the scan is called on by itself
MaxScanned == 3

ScannedLists == UNION {[1..n -> AssetUniverse] : n \in 0..MaxScanned}

Line(sum, filename) == sum \o <<" ", " ">> \o filename

\* a manifest as a release publishes it: the digests of the published bytes
\* (BodyA) of every file, in the plain, binary-mode (*) and ./ forms
GoodManifest(algo) ==
    << <<"#", " ", "c", "h", "e", "c", "k", "s", "u", "m", "s">>,
       <<>>,
       Line(HexSum(algo, BodyA), NameMain),
       Line(ToUpper(HexSum(algo, BodyA)), <<"*">> \o NameDeb),
       Line(HexSum(algo, BodyA), <<".", "/">> \o NameSynonym) >>

UnrelatedManifest == << Line(HexSum(<<"s", "h", "a", "2", "5", "6">>, BodyA), <<"o", "t", "h", "e", "r", ".", "z", "i", "p">>) >>

Manifests == {GoodManifest(<<"s", "h", "a", "2", "5", "6">>), GoodManifest(<<"s", "h", "a", "5", "1", "2">>), UnrelatedManifest}

BinNames == {<<>>, NameSums}

Paths == {<<>>, <<".">>, <<"/", "o", "/">>}

\* the platform families of the hosts (gopsutil's host.Info)
Families == {"debian", "arch"}

Args == { <<"o", "/", "r">>, <<"o", "/", "r", "@", "v", "1">>, <<"o", "/", "r", "@">>, <<"o">> }

\* The environment answers only what it is asked: a body is streamed only when
\* a reader was returned, os.Create is called only then, the copy runs only after
\* the file was created, a close error is only seen after a complete copy, the
\* partial file is removed only after a copy error, and MkdirAll is skipped for
\* the current directory.
IsStream(resp) == resp \in {"stream", "streamAndRedirect"}

BodiesFor(resp, bodies) == IF IsStream(resp) THEN bodies ELSE {<<>>}

CreateAnswers(resp) == IF IsStream(resp) THEN BOOLEAN ELSE {FALSE}

CopyAnswers(resp, body, createFails) ==
    IF IsStream(resp) /\ ~createFails THEN 0..Len(body) ELSE {Len(body)}

CloseAnswers(resp, body, createFails, copied) ==
    IF IsStream(resp) /\ ~createFails /\ copied = Len(body) THEN BOOLEAN ELSE {FALSE}

RemoveAnswers(resp, body, createFails, copied) ==
    IF IsStream(resp) /\ ~createFails /\ copied < Len(body) THEN BOOLEAN ELSE {FALSE}

MkdirAnswers(dir) == IF dir # <<".">> THEN BOOLEAN ELSE {TRUE}

\* The scanner answers about the file it was opened on, for a scan that looks
\* for the target: the read succeeds, fails between two lines, or fails inside
\* a line whose part read so far is an entry of the target.  (A failure inside
\* a line whose part read so far is no such entry ends the scan as the failure
\* in front of that line does.)
ManifestScanAnswers(fs, path, targetFilename) ==
    IF Exists(fs, Clean(path))
    THEN LET lines == fs[Clean(path)]
         IN  {scan \in ScanAnswers(lines) :
                \/ scan.read = 0
                \/ /\ scan.read < Len(lines[scan.failsAt])
                   /\ ScanLines(Scanned(lines, scan), scan.failsAt, targetFilename, TRUE).ok}
    ELSE {NoScanError}

\* The answers verifyAssetChecksum gets in a run, for what it asks.  A scan of
\* the checksum file reads it to its end, fails in front of its first line, or
\* fails inside a line whose part read so far is an entry of the name looked
\* for: a failure anywhere else ends the scan in the same way as one of these.
\* When the first scan finds no entry only the two removals follow; when the
\* second scan finds none the process ends; when the first read fails it ends
\* too; otherwise the second read and the removals follow.
VerifyAnswers(fs, mainAssetDiskPath, mainAssetOriginalName, checksumAssetPath) ==
    LET scans1 == {scan \in ManifestScanAnswers(fs, checksumAssetPath, mainAssetOriginalName) :
                      scan.failsAt = 0 \/ scan.read > 0}
        scans2 == {scan \in ManifestScanAnswers(fs, checksumAssetPath, Base(mainAssetDiskPath)) :
                      scan.failsAt = 0 \/ scan.read > 0}
        found1 == {scan \in scans1 :
                      ParseChecksumFile(fs, checksumAssetPath, mainAssetOriginalName, scan).ok}
        found2 == {scan \in scans2 :
                      ParseChecksumFile(fs, checksumAssetPath, Base(mainAssetDiskPath), scan).ok}
        Answer(scan1, scan2, readFails1, readFails2, rmFails, rmMainFails) ==
            [scan1 |-> scan1, scan2 |-> scan2, readFails1 |-> readFails1,
             readFails2 |-> readFails2, rmFails |-> rmFails, rmMainFails |-> rmMainFails]
    IN  {Answer(scan1, NoScanError, FALSE, FALSE, rmFails, rmMainFails) :
                 scan1 \in (scans1 \ found1) \cup {ScanError(1, 0)},
                 rmFails \in BOOLEAN, rmMainFails \in BOOLEAN}
        \cup {Answer(scan1, scan2, FALSE, FALSE, FALSE, FALSE) :
                 scan1 \in found1, scan2 \in (scans2 \ found2) \cup {ScanError(1, 0)}}
        \cup {Answer(scan1, scan2, TRUE, FALSE, FALSE, FALSE) :
                 scan1 \in found1, scan2 \in found2}
        \cup {Answer(scan1, scan2, FALSE, readFails2, rmFails, rmMainFails) :
                 scan1 \in found1, scan2 \in found2, readFails2 \in BOOLEAN,
                 rmFails \in BOOLEAN, rmMainFails \in BOOLEAN}

(***************************************************************************)
(* The state of a run.                                                     *)
(***************************************************************************)
VARIABLES
    pc,                             \* where the run is
    binNameFlag,                    \* --binName
    pathFlag,                       \* --path
    osArchRegexes,                  \* the patterns GetOSArch compiled
    files,                          \* the file system
    assets,                         \* the assets of the release
    mainAssetToDownload,            \* index into assets, 0: nil
    checksumAssetToDownload,        \* index into assets, 0: nil
    downloadedMainAssetActualPath,
    actualChecksumAssetPath,
    lookups,                        \* the release lookups made
    requests,                       \* the asset IDs whose bytes were requested
    saves,                          \* the saveAssetToFile calls and their results
    verify,                         \* what verifyAssetChecksum did
    result,                         \* how the run ended
    call,                           \* a call of one of the pure functions
    ret                             \* and what it returned

vars == <<pc, binNameFlag, pathFlag, osArchRegexes, files, assets,
          mainAssetToDownload, checksumAssetToDownload, downloadedMainAssetActualPath,
          actualChecksumAssetPath, lookups, requests, saves, verify, result, call, ret>>

NoVerify ==
    [ran |-> FALSE, outcome |-> "none", err |-> "none", vc |-> "none",
     expected |-> <<>>, actual |-> <<>>, rmErr |-> FALSE]

Running == [status |-> "running", err |-> "none", Name |-> <<>>, Path |-> <<>>, exit |-> -1]

\* RunE returned an error: Execute logs it and exits with status 1
Failed(err) == [status |-> "error", err |-> err, Name |-> <<>>, Path |-> <<>>, exit |-> 1]

NoCall == [fn |-> "none"]

NoRet == [fn |-> "none"]

Init ==
    /\ pc = "boot"
    /\ binNameFlag \in BinNames
    /\ pathFlag \in Paths
    /\ osArchRegexes = <<>>
    /\ files = NoFiles
    /\ assets = <<>>
    /\ mainAssetToDownload = 0
    /\ checksumAssetToDownload = 0
    /\ downloadedMainAssetActualPath = <<>>
    /\ actualChecksumAssetPath = <<>>
    /\ lookups = 0
    /\ requests = <<>>
    /\ saves = <<>>
    /\ verify = NoVerify
    /\ result = Running
    /\ call = NoCall
    /\ ret = NoRet

\* Execute, up to rootCmd.Execute(): the matcher is initialised
Execute ==
    /\ pc = "boot"
    /\ osArchRegexes' = GetOSArch(GOOS, GOARCH)
    /\ pc' = "cmd"
    /\ UNCHANGED <<binNameFlag, pathFlag, files, assets, mainAssetToDownload,
                   checksumAssetToDownload, downloadedMainAssetActualPath,
                   actualChecksumAssetPath, lookups, requests, saves, verify, result,
                   call, ret>>

\* rootCmd.RunE up to the call of findDownloadAndVerifyAsset: the argument is
\* parsed, the client built, the release looked up (once) and its assets taken
RunE ==
    /\ pc = "cmd"
    /\ \E arg \in Args :
       \E clientOK \in (IF ParseArgs(arg).ok THEN BOOLEAN ELSE {TRUE}) :
       \E lookupOK \in (IF ParseArgs(arg).ok /\ clientOK THEN BOOLEAN ELSE {TRUE}) :
       \E list \in (IF ParseArgs(arg).ok /\ clientOK /\ lookupOK THEN AssetLists ELSE {<<>>}) :
          LET pa == ParseArgs(arg)
          IN  IF ~pa.ok
              THEN /\ result' = Failed("argument")
                   /\ pc' = "done"
                   /\ UNCHANGED <<assets, lookups>>
              ELSE IF ~clientOK
              THEN /\ result' = Failed("client")
                   /\ pc' = "done"
                   /\ UNCHANGED <<assets, lookups>>
              ELSE IF ~lookupOK
              THEN /\ result' = Failed("release")
                   /\ pc' = "done"
                   /\ lookups' = lookups + 1
                   /\ UNCHANGED assets
              ELSE IF Len(list) = 0
              THEN /\ result' = Failed("noassets")
                   /\ pc' = "done"
                   /\ lookups' = lookups + 1
                   /\ UNCHANGED assets
              ELSE /\ assets' = list
                   /\ lookups' = lookups + 1
                   /\ pc' = "find"
                   /\ UNCHANGED result
    /\ UNCHANGED <<binNameFlag, pathFlag, osArchRegexes, files, mainAssetToDownload,
                   checksumAssetToDownload, downloadedMainAssetActualPath,
                   actualChecksumAssetPath, requests, saves, verify, call, ret>>

\* findDownloadAndVerifyAsset: the scan and the check that a main asset was found
FindAssets ==
    /\ pc = "find"
    /\ LET found == ScanAssets(osArchRegexes, assets, 1, 0, 0)
       IN  IF found.main = 0
           THEN /\ result' = Failed("nosuitable")
                /\ pc' = "done"
                /\ UNCHANGED <<mainAssetToDownload, checksumAssetToDownload>>
           ELSE /\ mainAssetToDownload' = found.main
                /\ checksumAssetToDownload' = found.checksum
                /\ pc' = "main"
                /\ UNCHANGED result
    /\ UNCHANGED <<binNameFlag, pathFlag, osArchRegexes, files, assets,
                   downloadedMainAssetActualPath, actualChecksumAssetPath, lookups,
                   requests, saves, verify, call, ret>>

\* one call of saveAssetToFile: where it wrote, whether the stream broke off
\* before its end, the error it returned and the close error it logged
SaveRecord(d, path, streamFailed) ==
    [path |-> path, streamFailed |-> streamFailed, err |-> d.err, closeErr |-> d.closeErr]

MutDownloadMainGoesOnAfterFailure ==
    /\ pc = "main"
    /\ \E mkdirOK \in MkdirAnswers(TargetMainAssetDir(pathFlag)), resp \in Responses :
       \E body \in BodiesFor(resp, {BodyA, BodyB}) :
       \E createFails \in CreateAnswers(resp) :
       \E copied \in CopyAnswers(resp, body, createFails) :
       \E closeFails \in CloseAnswers(resp, body, createFails, copied) :
       \E removeFails \in RemoveAnswers(resp, body, createFails, copied) :
          LET asset == assets[mainAssetToDownload]
              target == TargetMainAssetSavePath(binNameFlag, pathFlag, asset.Name)
              d == downloadAndSaveAsset(files, asset, target, resp, body,
                                        createFails, copied, closeFails, removeFails)
          IN  IF TargetMainAssetDir(pathFlag) # <<".">> /\ ~mkdirOK
              THEN /\ result' = Failed("mkdir")
                   /\ pc' = "done"
                   /\ UNCHANGED <<files, requests, saves, downloadedMainAssetActualPath>>
              ELSE /\ files' = d.fs
                   /\ requests' = IF d.called THEN Append(requests, asset.ID) ELSE requests
                   /\ saves' = IF d.saveRan THEN Append(saves, SaveRecord(d, target, copied < Len(body))) ELSE saves
                   /\ IF d.err # "none"
                      THEN /\ pc' = IF checksumAssetToDownload # 0 THEN "checksum" ELSE "done"
                           /\ result' = IF checksumAssetToDownload # 0 THEN result
                                        ELSE Failed("main")
                           /\ UNCHANGED downloadedMainAssetActualPath
                      ELSE /\ downloadedMainAssetActualPath' = d.filePath
                           /\ pc' = IF checksumAssetToDownload # 0 THEN "checksum" ELSE "return"
                           /\ UNCHANGED result
    /\ UNCHANGED <<binNameFlag, pathFlag, osArchRegexes, assets, mainAssetToDownload,
                   checksumAssetToDownload, actualChecksumAssetPath, lookups, verify,
                   call, ret>>

\* findDownloadAndVerifyAsset: the target path, the target directory and the
\* download of the main asset
DownloadMain ==
    /\ pc = "main"
    /\ \E mkdirOK \in MkdirAnswers(TargetMainAssetDir(pathFlag)), resp \in Responses :
       \E body \in BodiesFor(resp, {BodyA, BodyB}) :
       \E createFails \in CreateAnswers(resp) :
       \E copied \in CopyAnswers(resp, body, createFails) :
       \E closeFails \in CloseAnswers(resp, body, createFails, copied) :
       \E removeFails \in RemoveAnswers(resp, body, createFails, copied) :
          LET asset == assets[mainAssetToDownload]
              target == TargetMainAssetSavePath(binNameFlag, pathFlag, asset.Name)
              d == downloadAndSaveAsset(files, asset, target, resp, body,
                                        createFails, copied, closeFails, removeFails)
          IN  IF TargetMainAssetDir(pathFlag) # <<".">> /\ ~mkdirOK
              THEN /\ result' = Failed("mkdir")
                   /\ pc' = "done"
                   /\ UNCHANGED <<files, requests, saves, downloadedMainAssetActualPath>>
              ELSE /\ files' = d.fs
                   /\ requests' = IF d.called THEN Append(requests, asset.ID) ELSE requests
                   /\ saves' = IF d.saveRan THEN Append(saves, SaveRecord(d, target, copied < Len(body))) ELSE saves
                   /\ IF d.err # "none"
                      THEN /\ result' = Failed("main")
                           /\ pc' = "done"
                           /\ UNCHANGED downloadedMainAssetActualPath
                      ELSE /\ downloadedMainAssetActualPath' = d.filePath
                           /\ pc' = IF checksumAssetToDownload # 0 THEN "checksum" ELSE "return"
                           /\ UNCHANGED result
    /\ UNCHANGED <<binNameFlag, pathFlag, osArchRegexes, assets, mainAssetToDownload,
                   checksumAssetToDownload, actualChecksumAssetPath, lookups, verify,
                   call, ret>>

\* findDownloadAndVerifyAsset: the download of the checksum file; a failure is
\* logged and verification is skipped
DownloadChecksum ==
    /\ pc = "checksum"
    /\ \E resp \in Responses :
       \E body \in BodiesFor(resp, Manifests) :
       \E createFails \in CreateAnswers(resp) :
       \E copied \in CopyAnswers(resp, body, createFails) :
       \E closeFails \in CloseAnswers(resp, body, createFails, copied) :
       \E removeFails \in RemoveAnswers(resp, body, createFails, copied) :
          LET asset == assets[checksumAssetToDownload]
              target == TargetChecksumAssetSavePath(asset.Name)
              d == downloadAndSaveAsset(files, asset, target, resp, body,
                                        createFails, copied, closeFails, removeFails)
          IN  /\ files' = d.fs
              /\ requests' = IF d.called THEN Append(requests, asset.ID) ELSE requests
              /\ saves' = IF d.saveRan THEN Append(saves, SaveRecord(d, target, copied < Len(body))) ELSE saves
              /\ IF d.err # "none"
                 THEN /\ pc' = "return"
                      /\ UNCHANGED actualChecksumAssetPath
                 ELSE /\ actualChecksumAssetPath' = d.filePath
                      /\ pc' = "verify"
    /\ UNCHANGED <<binNameFlag, pathFlag, osArchRegexes, assets, mainAssetToDownload,
                   checksumAssetToDownload, downloadedMainAssetActualPath, lookups, verify,
                   result, call, ret>>

\* findDownloadAndVerifyAsset: the call of verifyAssetChecksum.  log.Fatalf inside
\* it ends the process with status 1 on the spot; an error is returned to RunE.
Verify ==
    /\ pc = "verify"
    /\ \E a \in VerifyAnswers(files, downloadedMainAssetActualPath,
                                assets[mainAssetToDownload].Name, actualChecksumAssetPath) :
       \E v \in {verifyAssetChecksum(files, downloadedMainAssetActualPath,
                                     assets[mainAssetToDownload].Name,
                                     actualChecksumAssetPath,
                                     a.readFails1, a.readFails2, a.rmFails, a.rmMainFails,
                                     a.scan1, a.scan2)} :
              /\ files' = v.fs
              /\ verify' = [ran |-> TRUE, outcome |-> v.outcome, err |-> v.err, vc |-> v.vc,
                            expected |-> v.expected, actual |-> v.actual, rmErr |-> v.rmErr]
              /\ IF v.outcome = "fatal"
                 THEN /\ result' = [status |-> "fatal", err |-> v.vc, Name |-> <<>>,
                                    Path |-> <<>>, exit |-> 1]
                      /\ pc' = "done"
                 ELSE IF v.outcome = "error"
                 THEN /\ result' = Failed(v.err)
                      /\ pc' = "done"
                 ELSE /\ pc' = "return"
                      /\ UNCHANGED result
    /\ UNCHANGED <<binNameFlag, pathFlag, osArchRegexes, assets, mainAssetToDownload,
                   checksumAssetToDownload, downloadedMainAssetActualPath,
                   actualChecksumAssetPath, lookups, requests, saves, call, ret>>

\* findDownloadAndVerifyAsset: the Asset it returns.  *ContentType is read
\* without a nil check: with no content type the run panics (exit status 2).
Return ==
    /\ pc = "return"
    /\ LET asset == assets[mainAssetToDownload]
       IN  IF ~asset.hasContentType
           THEN result' = [status |-> "panic", err |-> "nilpointer", Name |-> <<>>,
                           Path |-> <<>>, exit |-> 2]
           ELSE result' = [status |-> "ok", err |-> "none", Name |-> asset.Name,
                           Path |-> downloadedMainAssetActualPath, exit |-> 0]
    /\ pc' = "done"
    /\ UNCHANGED <<binNameFlag, pathFlag, osArchRegexes, files, assets,
                   mainAssetToDownload, checksumAssetToDownload,
                   downloadedMainAssetActualPath, actualChecksumAssetPath, lookups,
                   requests, saves, verify, call, ret>>

Next ==
    \/ Execute
    \/ RunE
    \/ FindAssets
    \/ DownloadMain
    \/ DownloadChecksum
    \/ Verify
    \/ Return

Spec == Init /\ [][Next]_vars

(***************************************************************************)
(* utils.VerifyChecksum called on its own: a file system holding an asset  *)
(* and a checksum file, and one call with its arguments.                   *)
(***************************************************************************)
LibAssetPath == <<"/", "o", "/", "t">>

\* the names looked up: listed with a lowercase digest, listed with an
\* uppercase digest, not listed
LibNames == {NameMain, NameDeb, <<"t">>}

LibChecksumPaths == { <<"c", "h", "e", "c", "k", "s", "u", "m", "s", ".", "t", "x", "t">>, <<"/", "o", "/", "t", ".", "S", "H", "A", "5", "1", "2">>, <<"t", ".", "s", "h", "a", "1">> }

\* the last two are "BLAKE2B" with the Kelvin sign (U+212A), whose lower case
\* is "k", and "sha1" with the long s (U+017F), which is its own lower case
LibDefaults ==
    { <<>>, <<"s", "h", "a", "2", "5", "6">>, <<"S", "H", "A", "5", "1", "2">>, <<"c", "r", "c", "6", "4">>, <<"B", "L", "A">> \o <<"U+212A">> \o <<"E", "2", "B">>,
      <<"U+017F">> \o <<"h", "a", "1">> }

LibManifests ==
    {GoodManifest(<<"s", "h", "a", "2", "5", "6">>), GoodManifest(<<"s", "h", "a", "5", "1", "2">>), GoodManifest(<<"s", "h", "a", "1">>),
     UnrelatedManifest}

LibFileSystems ==
    {WriteFile(WriteFile(NoFiles, LibAssetPath, b), Clean(c), m) :
        b \in {BodyA, BodyB}, c \in LibChecksumPaths, m \in LibManifests}
    \cup {WriteFile(NoFiles, Clean(c), m) : c \in LibChecksumPaths, m \in LibManifests}
    \cup {WriteFile(NoFiles, LibAssetPath, b) : b \in {BodyA, BodyB}}

\* The algorithm the user asks verification to use (the --sha flag of the
\* specification), none or sha512.  No flag and no parameter carries it: the
\* command registers --path and --binName only, and VerifyChecksum is called
\* with the asset, the name, the checksum file and the default.
LibOverrides == {<<>>, <<"s", "h", "a", "5", "1", "2">>}

InitVerifyChecksum ==
    /\ pc = "lib"
    /\ binNameFlag = <<>>
    /\ pathFlag = <<>>
    /\ osArchRegexes = <<>>
    /\ files \in LibFileSystems
    /\ assets = <<>>
    /\ mainAssetToDownload = 0
    /\ checksumAssetToDownload = 0
    /\ downloadedMainAssetActualPath = <<>>
    /\ actualChecksumAssetPath = <<>>
    /\ lookups = 0
    /\ requests = <<>>
    /\ saves = <<>>
    /\ verify = NoVerify
    /\ result = Running
    /\ call = NoCall
    /\ ret = NoRet

CallVerifyChecksum ==
    /\ pc = "lib"
    /\ \E name \in LibNames, checksumFilePath \in LibChecksumPaths,
          default \in LibDefaults, readFails \in BOOLEAN :
       \E scan \in ManifestScanAnswers(files, checksumFilePath, name) :
       \E algorithmOverride \in LibOverrides :
          /\ call' = [fn |-> "VerifyChecksum", assetPathOnDisk |-> LibAssetPath,
                       assetNameInChecksumFile |-> name,
                       checksumFilePath |-> checksumFilePath,
                       defaultAlgoForGeneric |-> default, readFails |-> readFails,
                       scan |-> scan, algorithmOverride |-> algorithmOverride]
          /\ ret' = VerifyChecksum(files, LibAssetPath, name, checksumFilePath,
                                    default, readFails, scan)
    /\ pc' = "returned"
    /\ UNCHANGED <<binNameFlag, pathFlag, osArchRegexes, files, assets,
                   mainAssetToDownload, checksumAssetToDownload,
                   downloadedMainAssetActualPath, actualChecksumAssetPath, lookups,
                   requests, saves, verify, result>>

SpecVerifyChecksum == InitVerifyChecksum /\ [][CallVerifyChecksum]_vars

(***************************************************************************)
(* The scan of findDownloadAndVerifyAsset called on its own: one asset     *)
(* list on a host of one platform family, after GetOSArch.                 *)
(***************************************************************************)
InitScanAssets ==
    /\ pc = "scan"
    /\ binNameFlag = <<>>
    /\ pathFlag = <<>>
    /\ osArchRegexes = GetOSArch(GOOS, GOARCH)
    /\ files = NoFiles
    /\ assets = <<>>
    /\ mainAssetToDownload = 0
    /\ checksumAssetToDownload = 0
    /\ downloadedMainAssetActualPath = <<>>
    /\ actualChecksumAssetPath = <<>>
    /\ lookups = 0
    /\ requests = <<>>
    /\ saves = <<>>
    /\ verify = NoVerify
    /\ result = Running
    /\ call = NoCall
    /\ ret = NoRet

CallScanAssets ==
    /\ pc = "scan"
    /\ \E list \in ScannedLists, family \in Families :
          /\ call' = [fn |-> "ScanAssets", assets |-> list, family |-> family]
          /\ ret' = ScanAssets(osArchRegexes, list, 1, 0, 0)
    /\ pc' = "scanned"
    /\ UNCHANGED <<binNameFlag, pathFlag, osArchRegexes, files, assets,
                   mainAssetToDownload, checksumAssetToDownload,
                   downloadedMainAssetActualPath, actualChecksumAssetPath, lookups,
                   requests, saves, verify, result>>

SpecScanAssets == InitScanAssets /\ [][CallScanAssets]_vars

(***************************************************************************)
(* The pure functions of the utils package called on their own.  A harness *)
(* starts from Idle(p) and makes one call, recorded in call and ret.       *)
(***************************************************************************)
Quiet(p) ==
    /\ pc = p
    /\ binNameFlag = <<>>
    /\ pathFlag = <<>>
    /\ osArchRegexes = <<>>
    /\ files = NoFiles
    /\ assets = <<>>
    /\ mainAssetToDownload = 0
    /\ checksumAssetToDownload = 0
    /\ downloadedMainAssetActualPath = <<>>
    /\ actualChecksumAssetPath = <<>>
    /\ lookups = 0
    /\ requests = <<>>
    /\ saves = <<>>
    /\ verify = NoVerify
    /\ result = Running
    /\ ret = NoRet

Idle(p) == Quiet(p) /\ call = NoCall

\* every string of at most n characters of the alphabet
StringsUpTo(n, alphabet) == UNION { [1..k -> alphabet] : k \in 0..n }

MaxArgLen == 5

InitParseArgs == Idle("args")

CallParseArgs ==
    /\ pc = "args"
    /\ \E argString \in StringsUpTo(MaxArgLen, {"o", "r", "/", "@"}) :
          /\ call' = [fn |-> "ParseArgs", argString |-> argString]
          /\ ret' = ParseArgs(argString)
    /\ pc' = "parsed"
    /\ UNCHANGED <<binNameFlag, pathFlag, osArchRegexes, files, assets,
                   mainAssetToDownload, checksumAssetToDownload,
                   downloadedMainAssetActualPath, actualChecksumAssetPath, lookups,
                   requests, saves, verify, result>>

SpecParseArgs == InitParseArgs /\ [][CallParseArgs]_vars

MaxManifestLines == 3

\* lines a manifest can hold: a blank line, a comment behind a space, a
\* one-token line, the entry of a file whose name begins with the target's,
\* the binary-mode and ./ forms, lines that only look like them, and the plain
\* form with tab, form feed and vertical tab as its white space
ManifestLines ==
    { <<>>, <<" ", "#", "d", " ", "t">>, <<"t">>, <<"d", "1", " ", " ", "t", ".", "s">>, <<"d", "2", " ", "*", "t">>,
      <<"d", "4", " ", "*", ".", "/", "t">>, <<"d", "5", " ", ".", "/", "*", "t">>, <<"d", "6", " ", "*", "*", "t">>, <<"d", "7", " ", "x", " ", "t">>, <<"d", "8", " ", "T">>,
      <<"\t">> \o <<"d", "9">> \o <<"\f">> \o <<"t">> \o <<"">> }

ManifestPaths == { <<"m">>, <<".", "/", "m">>, <<"x">> }

\* The calls look for the target t, and their scanner reads the file to its
\* end or fails in its last line or behind it.  (A failure in an earlier line
\* of a longer file is the same scan as this one of the file that ends with
\* that line.)

InitParseChecksumFile == Idle("manifest")

CallParseChecksumFile ==
    /\ pc = "manifest"
    /\ \E n \in 0..MaxManifestLines :
       \E lines \in [1..n -> ManifestLines] :
       \E checksumFilePath \in ManifestPaths, targetFilename \in { <<"t">> } :
       \E scan \in {a \in ScanAnswers(lines) : a.failsAt = 0 \/ a.failsAt >= Len(lines)} :
       \E r \in {ParseChecksumFile(WriteFile(NoFiles, <<"m">>, lines), checksumFilePath,
                                    targetFilename, scan)} :
          /\ files' = WriteFile(NoFiles, <<"m">>, lines)
          /\ call' = [fn |-> "ParseChecksumFile", checksumFilePath |-> checksumFilePath,
                      targetFilename |-> targetFilename, scan |-> scan]
          /\ ret' = [ok |-> r.ok, sum |-> r.sum,
                     err |-> ParseChecksumFileError(r, checksumFilePath, targetFilename)]
    /\ pc' = "looked"
    /\ UNCHANGED <<binNameFlag, pathFlag, osArchRegexes, assets,
                   mainAssetToDownload, checksumAssetToDownload,
                   downloadedMainAssetActualPath, actualChecksumAssetPath, lookups,
                   requests, saves, verify, result>>

SpecParseChecksumFile == InitParseChecksumFile /\ [][CallParseChecksumFile]_vars

(***************************************************************************)
(* The matcher on its own, in a process built for one host: GetOSArch,     *)
(* the reset of the pattern set, and one query of MatchFile.               *)
(***************************************************************************)
HostSystems == { <<"l", "i", "n", "u", "x">>, <<"w", "i", "n", "d", "o", "w", "s">>, <<"d", "a", "r", "w", "i", "n">> }

HostArchitectures == { <<"a", "m", "d", "6", "4">>, <<"3", "8", "6">>, <<"a", "r", "m", "6", "4">>, <<"a", "r", "m">> }

\* the last one is "WINDOWS" with the long s (U+017F), which folds to "s"
NameSystems ==
    { <<"l", "i", "n", "u", "x">>, <<"L", "i", "n", "u", "x">>, <<"L", "I", "N", "U", "X">>, <<"w", "i", "n", "d", "o", "w", "s">>, <<"d", "a", "r", "w", "i", "n">>,
      <<"W", "I", "N", "D", "O", "W">> \o <<"U+017F">> }

NameArchitectures ==
    { <<"a", "m", "d", "6", "4">>, <<"A", "M", "D", "6", "4">>, <<"x", "8", "6", "_", "6", "4">>, <<"3", "8", "6">>, <<"i", "3", "8", "6">>, <<"a", "r", "m", "6", "4">>, <<"a", "a", "r", "c", "h", "6", "4">>, <<"a", "r", "m">> }

NameSeparators == {"-", "_", "/", ".", "\n"}

NameShapes == {"os-arch", "arch-os", "os..arch", "arch..os"}

\* a release asset name that names a system and an architecture
AssetName(system, architecture, shape, sep) ==
    CASE shape = "os-arch" -> <<"t", "o", "o", "l", "_">> \o system \o <<sep>> \o architecture
      [] shape = "arch-os" -> <<"t", "o", "o", "l", "_">> \o architecture \o <<sep>> \o system \o <<".", "t", "g", "z">>
      [] shape = "os..arch" -> system \o <<"_", "1", ".", "0", "_">> \o architecture \o <<".", "e", "x", "e">>
      [] shape = "arch..os" -> <<"t", "o", "o", "l", "-">> \o architecture \o <<".", "v", "1", ".">> \o system

InitMatchFile ==
    /\ Quiet("match")
    /\ \E goos \in HostSystems, goarch \in HostArchitectures :
          call = [fn |-> "none", goos |-> goos, goarch |-> goarch, built |-> FALSE]

CallGetOSArch ==
    /\ pc \in {"match", "reset"}
    /\ osArchRegexes' = GetOSArch(call.goos, call.goarch)
    /\ call' = [call EXCEPT !.fn = "GetOSArch", !.built = TRUE]
    /\ pc' = "built"
    /\ UNCHANGED <<binNameFlag, pathFlag, files, assets,
                   mainAssetToDownload, checksumAssetToDownload,
                   downloadedMainAssetActualPath, actualChecksumAssetPath, lookups,
                   requests, saves, verify, result, ret>>

CallResetOsArchRegexes ==
    /\ pc = "built"
    /\ osArchRegexes' = <<>>
    /\ call' = [call EXCEPT !.fn = "resetOsArchRegexesForTesting", !.built = FALSE]
    /\ pc' = "reset"
    /\ UNCHANGED <<binNameFlag, pathFlag, files, assets,
                   mainAssetToDownload, checksumAssetToDownload,
                   downloadedMainAssetActualPath, actualChecksumAssetPath, lookups,
                   requests, saves, verify, result, ret>>

CallMatchFile ==
    /\ pc \in {"match", "built", "reset"}
    /\ \E system \in NameSystems, architecture \in NameArchitectures,
          shape \in NameShapes, sep \in NameSeparators :
          /\ call' = [fn |-> "MatchFile", goos |-> call.goos, goarch |-> call.goarch,
                      built |-> call.built, after |-> call.fn,
                      file |-> AssetName(system, architecture, shape, sep),
                      system |-> system, architecture |-> architecture]
          /\ ret' = [fn |-> "MatchFile",
                     matched |-> MatchFile(osArchRegexes,
                                           AssetName(system, architecture, shape, sep))]
    /\ pc' = "matched"
    /\ UNCHANGED <<binNameFlag, pathFlag, osArchRegexes, files, assets,
                   mainAssetToDownload, checksumAssetToDownload,
                   downloadedMainAssetActualPath, actualChecksumAssetPath, lookups,
                   requests, saves, verify, result>>

NextMatchFile == CallGetOSArch \/ CallResetOsArchRegexes \/ CallMatchFile

SpecMatchFile == InitMatchFile /\ [][NextMatchFile]_vars

(***************************************************************************)
(* IsChecksumFile called on its own with the name of a file in a directory. *)
(***************************************************************************)
FileStems == { <<>>, <<"b", "i", "n", "a", "r", "y">>, <<"a", "r", "c", "h", "i", "v", "e", ".", "t", "a", "r", ".", "g", "z">>, <<"t", "o", "o", "l", ".", "s", "h", "a", "2", "5", "6">> }

FileExtensions ==
    algorithmExts \cup { ToUpper(e) : e \in algorithmExts }
    \cup { <<".", "t", "x", "t">>, <<".", "e", "x", "e">>, <<".", "s", "i", "g">>, <<".", "s", "h", "a", "2", "5", "7">>, <<".", "s", "h", "a", "3">>, <<".", "s", "h", "a", "2", "5", "6", "s", "u", "m">> }

ManifestLikeNames ==
    { <<"c", "h", "e", "c", "k", "s", "u", "m", "s", ".", "t", "x", "t">>, <<"C", "H", "E", "C", "K", "S", "U", "M", "S", ".", "T", "X", "T">>, <<"c", "h", "e", "c", "k", "s", "u", "m">>, <<"c", "h", "e", "c", "k", "s", "u", "m", "s">>,
      <<"t", "o", "o", "l", "_", "1", ".", "0", "_", "c", "h", "e", "c", "k", "s", "u", "m", "s", ".", "t", "x", "t">>, <<"t", "o", "o", "l", "_", "c", "h", "e", "c", "k", "s", "u", "m", ".", "t", "x", "t", ".", "s", "i", "g">>, <<"C", "h", "e", "c", "k", "s", "u", "m", "-", "l", "i", "n", "u", "x">>,
      <<"S", "H", "A", "5", "1", "2", "S", "U", "M", "S">>, <<"s", "h", "a", "2", "5", "6", "s", "u", "m">>, <<"s", "h", "a", "2", "5", "6", "s", "u", "m", "s", ".", "t", "x", "t">>, <<"s", "h", "a", "s", "u", "m">>, <<"S", "H", "A", "S", "U", "M", "S", ".", "t", "x", "t">>,
      <<"s", "h", "a", "1", "s", "u", "m", ".", "t", "x", "t">>, <<"m", "d", "5", "s", "u", "m">>, <<"M", "D", "5", "S", "U", "M", "S">>, <<"m", "d", "5", "s", "u", "m", "s", ".", "t", "x", "t">>,
      <<"s", "h", "a", "2", "5", "6">>, <<"m", "d", "5">>, <<"s", "u", "m", "s", ".", "t", "x", "t">>, <<"s", "h", "a", "X", "s", "u", "m", "s">>, <<"s", "h", "a", "2", "5", "s", "i", "x", "s", "u", "m">>, <<"x", "s", "h", "a", "2", "5", "6", "s", "u", "m">>,
      <<"s", "h", "a", "2", "5", "6", "s", "u", "m", ".", "a", "s", "c">>, <<"s", "h", "a", "2", "5", "6", "s", "u", "m", "s", ".", "t", "e", "x", "t">>, <<"m", "d", "5", "s", "u", "m", "s", "s">>, <<"t", "o", "o", "l", "_", "m", "d", "5", "s", "u", "m", "s">>,
      <<"r", "e", "a", "d", "m", "e", ".", "t", "x", "t">>, <<"n", "o", "t", ".", "t", "x", "t">>, <<"b", "i", "n", "a", "r", "y", ".", "e", "x", "e">>, <<"c", "h", "e", "c", "k", "s", "u", "m", ".", "s", "h", "a", "2", "5", "7">>,
      \* names with letters outside ASCII: the long s (U+017F) and the Kelvin
      \* sign (U+212A) fold to "s" and "k", and only the latter has a lower case
      <<"C", "H", "E", "C">> \o <<"U+212A", "U+017F">> \o <<"U", "M", "S">>, <<"m", "d", "5">> \o <<"U+017F">> \o <<"u", "m">>,
      <<"b", "i", "n", "a", "r", "y", ".">> \o <<"U+017F">> \o <<"h", "a", "2", "5", "6">>, <<"b", "i", "n", "a", "r", "y", ".", "B", "L", "A">> \o <<"U+212A">> \o <<"E", "2", "B">>,
      <<"É", ".", "M", "D", "5">>, <<"b", "i", "n", "a", "r", "y", ".", "É">> }

FileDirectories == { <<>>, <<"d", "/">>, <<"c", "h", "e", "c", "k", "s", "u", "m", "s", "/">>, <<"d", ".", "s", "h", "a", "2", "5", "6", "/">>, <<"/", "S", "H", "A", "2", "5", "6", "S", "U", "M", "S", "/">> }

FileNames == { stem \o ext : stem \in FileStems, ext \in FileExtensions } \cup ManifestLikeNames

InitIsChecksumFile == Idle("name")

CallIsChecksumFile ==
    /\ pc = "name"
    /\ \E dir \in FileDirectories, name \in FileNames \ {<<>>} :
          /\ call' = [fn |-> "IsChecksumFile", filePath |-> dir \o name, name |-> name]
          /\ ret' = [fn |-> "IsChecksumFile", isChecksum |-> IsChecksumFile(dir \o name)]
    /\ pc' = "named"
    /\ UNCHANGED <<binNameFlag, pathFlag, osArchRegexes, files, assets,
                   mainAssetToDownload, checksumAssetToDownload,
                   downloadedMainAssetActualPath, actualChecksumAssetPath, lookups,
                   requests, saves, verify, result>>

SpecIsChecksumFile == InitIsChecksumFile /\ [][CallIsChecksumFile]_vars

(***************************************************************************)
(* GetAlgorithmFromFilename called on its own, and GetHasher and           *)
(* IsChecksumFile asked about what it returned and the same filename.      *)
(***************************************************************************)
InitGetAlgorithmFromFilename == Idle("filename")

CallGetAlgorithmFromFilename ==
    /\ pc = "filename"
    /\ \E dir \in FileDirectories, name \in FileNames \ {<<>>} :
       \E derived \in {GetAlgorithmFromFilename(dir \o name)} :
          /\ call' = [fn |-> "GetAlgorithmFromFilename", filename |-> dir \o name]
          /\ ret' = [fn |-> "GetAlgorithmFromFilename", name |-> derived.name,
                      found |-> derived.found, hasher |-> GetHasher(derived.name),
                      isChecksum |-> IsChecksumFile(dir \o name)]
    /\ pc' = "derived"
    /\ UNCHANGED <<binNameFlag, pathFlag, osArchRegexes, files, assets,
                   mainAssetToDownload, checksumAssetToDownload,
                   downloadedMainAssetActualPath, actualChecksumAssetPath, lookups,
                   requests, saves, verify, result>>

SpecGetAlgorithmFromFilename == InitGetAlgorithmFromFilename /\ [][CallGetAlgorithmFromFilename]_vars

(***************************************************************************)
(* The command run without Execute's call of GetOSArch, as when RunE or     *)
(* findDownloadAndVerifyAsset is called directly: the pattern set is nil.   *)
(***************************************************************************)
InitUninitialised ==
    /\ Quiet("cmd")
    /\ call = NoCall

NextUninitialised == RunE \/ FindAssets

SpecUninitialised == InitUninitialised /\ [][NextUninitialised]_vars

(***************************************************************************)
(* downloadAndSaveAsset called on its own: one asset, one target path, one *)
(* answer of the download collaborator, on a file system that may hold a   *)
(* file at the target path already.                                        *)
(***************************************************************************)
DownloadTargets == { <<"/", "o", "/", "t">>, <<"c", "h", "e", "c", "k", "s", "u", "m", "s", ".", "t", "x", "t">> }

DownloadFileSystems ==
    {NoFiles} \cup {WriteFile(NoFiles, t, BodyB) : t \in DownloadTargets}

InitDownloadAndSaveAsset ==
    /\ pc = "download"
    /\ binNameFlag = <<>>
    /\ pathFlag = <<>>
    /\ osArchRegexes = <<>>
    /\ files \in DownloadFileSystems
    /\ assets = <<>>
    /\ mainAssetToDownload = 0
    /\ checksumAssetToDownload = 0
    /\ downloadedMainAssetActualPath = <<>>
    /\ actualChecksumAssetPath = <<>>
    /\ lookups = 0
    /\ requests = <<>>
    /\ saves = <<>>
    /\ verify = NoVerify
    /\ result = Running
    /\ call = NoCall
    /\ ret = NoRet

CallDownloadAndSaveAsset ==
    /\ pc = "download"
    /\ \E asset \in AssetUniverse, target \in DownloadTargets, resp \in Responses :
       \E body \in BodiesFor(resp, {BodyA, BodyB}) :
       \E createFails \in CreateAnswers(resp) :
       \E copied \in CopyAnswers(resp, body, createFails) :
       \E closeFails \in CloseAnswers(resp, body, createFails, copied) :
       \E removeFails \in RemoveAnswers(resp, body, createFails, copied) :
       \E d \in {downloadAndSaveAsset(files, asset, target, resp, body, createFails, copied, closeFails, removeFails)} :
          /\ call' = [fn |-> "downloadAndSaveAsset", fs |-> files, asset |-> asset,
                       targetSavePath |-> target, resp |-> resp, body |-> body,
                       createFails |-> createFails, copied |-> copied,
                       removeFails |-> removeFails]
          /\ ret' = [filePath |-> d.filePath, err |-> d.err, called |-> d.called]
          /\ files' = d.fs
    /\ pc' = "downloaded"
    /\ UNCHANGED <<binNameFlag, pathFlag, osArchRegexes, assets,
                   mainAssetToDownload, checksumAssetToDownload,
                   downloadedMainAssetActualPath, actualChecksumAssetPath, lookups,
                   requests, saves, verify, result>>

SpecDownloadAndSaveAsset == InitDownloadAndSaveAsset /\ [][CallDownloadAndSaveAsset]_vars

(***************************************************************************)
(* The claims.                                                             *)
(***************************************************************************)
VerifyChecksumReturned == pc = "returned" /\ call.fn = "VerifyChecksum"

\* the digest the manifest lists for the name the call looks up
ListedDigest == ParseChecksumFile(files, call.checksumFilePath, call.assetNameInChecksumFile, call.scan)

\* the asset file of the call can be opened and read
AssetReadable == Exists(files, Clean(call.assetPathOnDisk)) /\ ~call.readFails

\* the digest of the asset file of the call under the algorithm the call resolved
ComputedDigest == HexSum(ToLower(ret.algo), files[Clean(call.assetPathOnDisk)])

\* C1: once the algorithm is resolved and supported, VerifyChecksum reports
\* success exactly when the manifest lists a digest for the asset's name, the
\* asset can be read, and the listed digest equals the computed one up to letter
\* case; when both digests exist and differ it fails with a mismatch error that
\* carries the asset's path and name, the expected and the actual digest.
C1_SuccessIffDigestsEqualIgnoringCase ==
    (VerifyChecksumReturned /\ ret.err \notin {"noalgorithm", "unsupported"}) =>
        /\ ret.valid <=> /\ ListedDigest.ok
                          /\ AssetReadable
                          /\ ToLower(ListedDigest.sum) = ToLower(ComputedDigest)
        /\ (ListedDigest.ok /\ AssetReadable
                /\ ToLower(ListedDigest.sum) # ToLower(ComputedDigest)) =>
              /\ ~ret.valid
              /\ ret.err = "mismatch"
              /\ ret.asset = call.assetPathOnDisk
              /\ ret.name = call.assetNameInChecksumFile
              /\ ret.expected = ListedDigest.sum
              /\ ret.actual = ComputedDigest

\* C1 happens: a call succeeded on a digest the manifest lists in uppercase
C1_Witness ==
    /\ VerifyChecksumReturned
    /\ ret.valid
    /\ ListedDigest.sum # ComputedDigest

\* the extension of the checksum file of the call, lowercased
CallExtension == Ext(ToLower(call.checksumFilePath))

\* C5 as stated: the algorithm used for verification is resolved by strict
\* precedence: a non-empty algorithm override is used directly; otherwise the
\* algorithm named by the checksum file's extension is used when that extension
\* is a known algorithm suffix, whatever default is supplied; otherwise the
\* configured default, sha256, is used.
C5_OverrideThenExtensionThenDefault ==
    VerifyChecksumReturned =>
        IF call.algorithmOverride # <<>>
        THEN ret.algo = call.algorithmOverride
        ELSE IF CallExtension \in algorithmExts
        THEN ret.algo = TrimPrefix(CallExtension, <<".">>)
        ELSE call.defaultAlgoForGeneric = DefaultAlgorithmForGenericChecksums
                => ret.algo = DefaultAlgorithmForGenericChecksums

\* the run is over: RunE returned or the process ended
Done == pc = "done"

\* verifyAssetChecksum returned nil
VerifiedOK == verify.ran /\ verify.outcome = "ok"

\* C2: after a successful verification the main asset is still at its path, the
\* checksum file is gone unless its removal failed, and no error or exit comes
\* out of the verification; a failed removal of the checksum file never turns
\* the verification into a failure.
C2_SuccessRemovesManifestKeepsAsset ==
    /\ VerifiedOK =>
          /\ Exists(files, downloadedMainAssetActualPath)
          /\ ~verify.rmErr => ~Exists(files, actualChecksumAssetPath)
          /\ result.status \notin {"error", "fatal"}
          /\ pc \in {"return", "done"}
    /\ verify.rmErr => VerifiedOK

\* C2 happens: a run ended after a successful verification that removed the
\* checksum file
C2_Witness ==
    /\ Done
    /\ VerifiedOK
    /\ ~verify.rmErr
    /\ result.status = "ok"
    /\ ~Exists(files, actualChecksumAssetPath)

\* C3 as stated: when the downloaded checksum file has no entry for the main
\* asset's name, verification fails and the main asset is still on disk.
C3_NoEntryKeepsMainAsset ==
    (verify.ran /\ verify.err = "noentry") =>
        /\ verify.outcome = "error"
        /\ Exists(files, downloadedMainAssetActualPath)

\* C4 as stated: in every run that started verification the checksum file is
\* gone when the run ends (a removal the file system refused apart).
C4_ManifestGoneAtEnd ==
    (Done /\ verify.ran /\ ~verify.rmErr) => ~Exists(files, actualChecksumAssetPath)

\* the stream of the call broke off before its end, after the destination file
\* was created
StreamBrokeOff ==
    /\ pc = "downloaded" /\ call.fn = "downloadAndSaveAsset"
    /\ call.asset.hasName /\ call.asset.hasID /\ call.asset.hasSize
    /\ call.resp \in {"stream", "streamAndRedirect"}
    /\ ~call.createFails
    /\ call.copied < Len(call.body)

\* C6 as stated: if the byte stream fails at any point while an asset is being
\* copied to its destination, the save returns an error and the destination
\* file does not exist afterwards: no partial file is left behind, and the call
\* fails instead of producing a downloaded file.
C6_CopyFailureLeavesNoFile ==
    StreamBrokeOff =>
        /\ ret.err = "copy"
        /\ ~Exists(files, call.targetSavePath)

\* an asset the scan can take as the main asset
Suitable(regexes, a) ==
    a.hasName /\ a.hasID /\ ~IsChecksumFile(a.Name) /\ MatchFile(regexes, a.Name)

\* C7: when no asset of the release is suitable the run ends with the
\* no-suitable-asset error, no bytes were requested and no file was written.
C7_NoSuitableAssetNoDownload ==
    (pc \notin {"boot", "cmd", "find"} /\ assets # <<>>
        /\ \A i \in DOMAIN assets : ~Suitable(osArchRegexes, assets[i])) =>
        /\ Done
        /\ result = Failed("nosuitable")
        /\ requests = <<>>
        /\ saves = <<>>
        /\ files = NoFiles

\* C7 happens: a release with a checksum file and a binary for another platform
C7_Witness ==
    /\ Done
    /\ result = Failed("nosuitable")
    /\ Len(assets) = 2
    /\ \E i \in DOMAIN assets : IsChecksumFile(assets[i].Name)
    /\ \E i \in DOMAIN assets : ~IsChecksumFile(assets[i].Name)

\* C10 as stated: a release with a suitable main asset and no checksum file
\* ends successfully with the main asset on disk, whenever its download
\* succeeded, without a checksum download and without verification.
C10_NoManifestStillSucceeds ==
    (Done /\ mainAssetToDownload # 0 /\ checksumAssetToDownload = 0
        /\ downloadedMainAssetActualPath # <<>>) =>
        /\ result.status = "ok"
        /\ Exists(files, downloadedMainAssetActualPath)
        /\ ~verify.ran
        /\ Len(requests) = 1

ScanReturned == pc = "scanned" /\ call.fn = "ScanAssets"

\* the least index of a set of indices, 0 for the empty set
FirstOf(S) == IF S = {} THEN 0 ELSE CHOOSE i \in S : \A j \in S : i <= j

\* the assets of the scanned list that can be the main asset
MainCandidates == {i \in DOMAIN call.assets : Suitable(osArchRegexes, call.assets[i])}

\* the assets of the scanned list that can be the checksum asset
ChecksumCandidates ==
    {i \in DOMAIN call.assets :
        /\ call.assets[i].hasName
        /\ call.assets[i].hasID
        /\ IsChecksumFile(call.assets[i].Name)}

\* the main candidates whose name carries the package extension of the host's
\* platform family
NativePackages ==
    {i \in MainCandidates :
        /\ DetectOS(call.family) # <<>>
        /\ GetExtension(call.assets[i].Name) = DetectOS(call.family)}

\* C8 as stated: among several main candidates one that carries the host's
\* package extension is selected when there is one, else the first candidate.
C8_NativePackagePreferred ==
    (ScanReturned /\ MainCandidates # {}) =>
        IF NativePackages # {}
        THEN ret.main \in NativePackages
        ELSE ret.main = FirstOf(MainCandidates)

\* C9: the checksum asset the scan selects is the first asset of the list that
\* has a name and an ID and a checksum file's name, and none when there is no
\* such asset; later candidates change nothing.
C9_FirstChecksumCandidateWins ==
    ScanReturned => ret.checksum = FirstOf(ChecksumCandidates)

\* C9 happens: a list with a main asset and two checksum candidates
C9_Witness ==
    /\ ScanReturned
    /\ Cardinality(ChecksumCandidates) = 2
    /\ ret.main # 0
    /\ ret.checksum = FirstOf(ChecksumCandidates)
    /\ ret.checksum < ret.main


ParseArgsReturned == pc = "parsed" /\ call.fn = "ParseArgs"

\* the positions of a character in the argument of the call
PositionsOf(c) == { i \in 1..Len(call.argString) : call.argString[i] = c }

\* the argument is owner/repo: no '@', one '/', with something on both sides
IsOwnerRepo ==
    /\ PositionsOf("@") = {}
    /\ \E k \in 2..(Len(call.argString) - 1) : PositionsOf("/") = {k}

\* the argument is owner/repo@tag: one '@' with a tag behind it, and before it
\* one '/' with something on both sides
IsOwnerRepoTag ==
    \E a \in 4..(Len(call.argString) - 1) :
        /\ PositionsOf("@") = {a}
        /\ \E k \in 2..(a - 2) : { i \in PositionsOf("/") : i < a } = {k}

ArgPiece(from, to) == SubSeq(call.argString, from, to)

\* C11: for every non-empty owner and repo containing neither '/' nor '@',
\* ParseArgs(owner/repo) returns {owner, repo, "latest"}, and for every
\* non-empty tag containing no '@' (it may contain '/'), ParseArgs(owner/repo@tag)
\* returns {owner, repo, tag} with the tag unchanged.
C11_WellFormedArgumentsParse ==
    ParseArgsReturned =>
        LET n == Len(call.argString)
        IN  /\ IsOwnerRepo =>
                \A k \in PositionsOf("/") :
                    ret = [ok |-> TRUE, Owner |-> ArgPiece(1, k - 1),
                           Repo |-> ArgPiece(k + 1, n), Version |-> <<"l", "a", "t", "e", "s", "t">>]
            /\ IsOwnerRepoTag =>
                \A a \in PositionsOf("@") :
                \A k \in { i \in PositionsOf("/") : i < a } :
                    ret = [ok |-> TRUE, Owner |-> ArgPiece(1, k - 1),
                           Repo |-> ArgPiece(k + 1, a - 1), Version |-> ArgPiece(a + 1, n)]

\* a tag that itself contains a '/' was parsed and returned unchanged
C11_Witness ==
    /\ ParseArgsReturned
    /\ IsOwnerRepoTag
    /\ ret.ok
    /\ Contains(ret.Version, <<"/">>)
    /\ ret.Owner # ret.Repo

\* C12: ParseArgs returns an error and an empty result for every input that
\* is not exactly owner/repo or owner/repo@version (zero or several '/' in
\* the owner/repo part, more than one '@', empty owner, repo or version, the
\* empty string); every successful result has a non-empty owner and repo
\* containing neither '/' nor '@' and a non-empty version.
C12_MalformedArgumentsRejected ==
    ParseArgsReturned =>
        /\ ~(IsOwnerRepo \/ IsOwnerRepoTag) =>
                ret = [ok |-> FALSE, Owner |-> <<>>, Repo |-> <<>>, Version |-> <<>>]
        /\ ret.ok =>
                /\ ret.Owner # <<>> /\ ret.Repo # <<>> /\ ret.Version # <<>>
                /\ \A c \in {"/", "@"} :
                       ~Contains(ret.Owner, <<c>>) /\ ~Contains(ret.Repo, <<c>>)

\* owner/repo@ with nothing behind the '@' was rejected
C12_Witness ==
    /\ ParseArgsReturned
    /\ call.argString = <<"o", "/", "r", "@">>
    /\ ~ret.ok


ParseChecksumFileReturned == pc = "looked" /\ call.fn = "ParseChecksumFile"

\* the positions of the characters of a line that are not whitespace
InkPositions(line) == { i \in 1..Len(line) : line[i] \notin SpaceChars }

MinOf(S) == CHOOSE x \in S : \A y \in S : x <= y

MaxOf(S) == CHOOSE x \in S : \A y \in S : x >= y

\* the first and the last whitespace-separated token of a non-blank line
FirstToken(line) ==
    LET from == MinOf(InkPositions(line))
        to == MaxOf({ j \in from..Len(line) : (from..j) \subseteq InkPositions(line) })
    IN  SubSeq(line, from, to)

LastToken(line) ==
    LET to == MaxOf(InkPositions(line))
        from == MinOf({ j \in 1..to : (j..to) \subseteq InkPositions(line) })
    IN  SubSeq(line, from, to)

\* some position between two of the positions is not among them
HasGap(positions) ==
    \E i \in positions, k \in positions : \E j \in (i + 1)..(k - 1) : j \notin positions

HasTwoTokens(line) == HasGap(InkPositions(line))

\* one leading '*' stripped, then one leading './'
NormalizedName(token) ==
    LET unstarred == IF token # <<>> /\ token[1] = "*" THEN Tail(token) ELSE token
    IN  IF Len(unstarred) >= 2 /\ unstarred[1] = "." /\ unstarred[2] = "/"
        THEN Tail(Tail(unstarred)) ELSE unstarred

\* the line is an entry for the target: not blank, not a comment (its first
\* character after the leading whitespace is not '#'), two tokens or more,
\* and its last token names the target
IsEntryFor(line, target) ==
    /\ InkPositions(line) # {}
    /\ line[MinOf(InkPositions(line))] # "#"
    /\ HasTwoTokens(line)
    /\ NormalizedName(LastToken(line)) = target

ManifestOfCall == files[Clean(call.checksumFilePath)]

EntriesOfCall ==
    { i \in 1..Len(ManifestOfCall) : IsEntryFor(ManifestOfCall[i], call.targetFilename) }

\* the file was read to its end
WholeFileRead == call.scan.failsAt = 0

\* what was read of the file: all its lines, or, when the read broke off, the
\* lines before the break and the part of the broken line that was read
LinesRead ==
    IF WholeFileRead THEN ManifestOfCall
    ELSE [i \in 1..(call.scan.failsAt - 1) |-> ManifestOfCall[i]]
         \o (IF call.scan.read > 0
             THEN <<[j \in 1..call.scan.read |-> ManifestOfCall[call.scan.failsAt][j]]>>
             ELSE <<>>)

\* the entries for the target in what was read
EntriesIn(lines, target) == { i \in 1..Len(lines) : IsEntryFor(lines[i], target) }

EntriesRead == EntriesIn(LinesRead, call.targetFilename)

\* C13: ParseChecksumFile returns the first whitespace-separated token of the
\* first line, in file order, among the lines that are non-blank, are not
\* '#' comments and have at least two tokens, whose last token, after
\* stripping one leading '*' and then one leading './', equals the target
\* filename exactly; if the file has no such line it fails with a not-found
\* error naming the target and the manifest path.  (When the read of the
\* file breaks off, what was read of it counts, and without such a line in
\* it the read error is returned.)
C13_FirstMatchingEntryOrNotFound ==
    (ParseChecksumFileReturned /\ Exists(files, Clean(call.checksumFilePath))) =>
        IF EntriesRead # {}
        THEN /\ ret.ok
             /\ \E first \in {MinOf(EntriesRead)} : ret.sum = FirstToken(LinesRead[first])
             /\ ret.err = <<>>
        ELSE /\ ~ret.ok
             /\ ret.sum = <<>>
             /\ ret.err = IF WholeFileRead
                          THEN <<"notfound", call.targetFilename, call.checksumFilePath>>
                          ELSE <<"read", call.checksumFilePath>>

\* a manifest with a skipped line and two entries for the target whose digests
\* differ: the first one was returned
C13_Witness ==
    /\ ParseChecksumFileReturned
    /\ Exists(files, Clean(call.checksumFilePath))
    /\ WholeFileRead
    /\ Cardinality(EntriesOfCall) = 2
    /\ MinOf(EntriesOfCall) = 2
    /\ ManifestOfCall[2] = <<"d", "7", " ", "x", " ", "t">>
    /\ ManifestOfCall[3] = <<"d", "2", " ", "*", "t">>
    /\ ret.ok /\ ret.sum = <<"d", "7">>


MatchFileReturned == pc = "matched" /\ call.fn = "MatchFile"

\* the architecture names equivalent to a host architecture: itself and its
\* listed synonym (amd64~x86_64, 386~i386, arm64~aarch64)
ListedNamesOf(goarch) ==
    {goarch} \cup (IF goarch = <<"a", "m", "d", "6", "4">> THEN { <<"x", "8", "6", "_", "6", "4">> }
                   ELSE IF goarch = <<"3", "8", "6">> THEN { <<"i", "3", "8", "6">> }
                   ELSE IF goarch = <<"a", "r", "m", "6", "4">> THEN { <<"a", "a", "r", "c", "h", "6", "4">> }
                   ELSE {})

\* a, one of '-', '_', '/', then b occurs in the name
JoinedIn(name, a, b) == \E sep \in {"-", "_", "/"} : Contains(name, a \o <<sep>> \o b)

\* a occurs in a line of the name and b occurs somewhere behind it in that
\* line ("." matches every character but the line feed)
FollowedIn(name, a, b) ==
    \E n \in DOMAIN Split(name, "\n") :
        \E k \in 0..Len(Split(name, "\n")[n]) :
            /\ Contains(SubSeq(Split(name, "\n")[n], 1, k), a)
            /\ Contains(SubSeq(Split(name, "\n")[n], k + 1, Len(Split(name, "\n")[n])), b)

\* the name of the call satisfies one of the patterns generated for its host
SatisfiesSomePattern ==
    LET name == Fold(call.file)
    IN  \E token \in ListedNamesOf(call.goarch) :
            \/ JoinedIn(name, call.goos, token) \/ JoinedIn(name, token, call.goos)
            \/ FollowedIn(name, call.goos, token) \/ FollowedIn(name, token, call.goos)

\* C14: after the pattern set has been built for host (os, arch),
\* MatchFile(name) is true exactly when name matches, case-insensitively, at
\* least one generated pattern: the OS token and the arch token (the host
\* arch or its listed synonym) joined by '-', '_' or '/' in either order, or
\* both tokens anywhere in the name in either order.  For host linux/amd64
\* tool_linux-amd64 and tool_linux-x86_64 match, tool_windows-amd64 and
\* tool_linux-i386 do not.
C14_MatchIffSomePatternMatches ==
    (MatchFileReturned /\ call.built) =>
        /\ ret.matched <=> SatisfiesSomePattern
        /\ (call.goos = <<"l", "i", "n", "u", "x">> /\ call.goarch = <<"a", "m", "d", "6", "4">>) =>
              /\ call.file \in { <<"t", "o", "o", "l", "_", "l", "i", "n", "u", "x", "-", "a", "m", "d", "6", "4">>, <<"t", "o", "o", "l", "_", "l", "i", "n", "u", "x", "-", "x", "8", "6", "_", "6", "4">> } => ret.matched
              /\ call.file \in { <<"t", "o", "o", "l", "_", "w", "i", "n", "d", "o", "w", "s", "-", "a", "m", "d", "6", "4">>, <<"t", "o", "o", "l", "_", "l", "i", "n", "u", "x", "-", "i", "3", "8", "6">> } => ~ret.matched

\* on linux/amd64 a name in capitals carrying the synonym, in the order
\* architecture then system, matched
C14_Witness ==
    /\ MatchFileReturned
    /\ call.built
    /\ call.goos = <<"l", "i", "n", "u", "x">> /\ call.goarch = <<"a", "m", "d", "6", "4">>
    /\ call.file = <<"t", "o", "o", "l", "_", "x", "8", "6", "_", "6", "4", ".", "L", "I", "N", "U", "X", ".", "t", "g", "z">>
    /\ ret.matched

\* C15: architecture synonyms do not cross-contaminate: for every host
\* architecture A and every asset name that names the host OS together with
\* an architecture B different from A, MatchFile returns false unless (A, B)
\* is a listed synonym pair, also where one architecture's name is contained
\* in the other's.
C15_NoCrossContamination ==
    (/\ MatchFileReturned
     /\ call.built
     /\ ToLower(call.system) = call.goos
     /\ ToLower(call.architecture) \notin ListedNamesOf(call.goarch)) => ~ret.matched


IsChecksumFileReturned == pc = "named" /\ call.fn = "IsChecksumFile"

\* the names the anchored part of the generic pattern accepts, in lowercase:
\* sha<digits>sum[s][.txt], md5sum[s][.txt] and checksums.txt
MaxShaDigits == 3

WholeManifestNames ==
    { <<"s", "h", "a">> \o d \o <<"s", "u", "m">> \o s \o t :
        d \in StringsUpTo(MaxShaDigits, {"1", "2", "5", "6"}),
        s \in {<<>>, <<"s">>}, t \in {<<>>, <<".", "t", "x", "t">>} }
    \cup { <<"m", "d", "5", "s", "u", "m">> \o s \o t : s \in {<<>>, <<"s">>}, t \in {<<>>, <<".", "t", "x", "t">>} }
    \cup { <<"c", "h", "e", "c", "k", "s", "u", "m", "s", ".", "t", "x", "t">> }

\* the thirteen known algorithm extensions
KnownExtensions ==
    { <<".">> \o a : a \in { <<"s", "h", "a", "2", "5", "6">>, <<"s", "h", "a", "5", "1", "2">>, <<"s", "h", "a", "1">>, <<"c", "r", "c", "3", "2">>, <<"m", "d", "5">>,
                             <<"s", "h", "a", "2", "2", "4">>, <<"s", "h", "a", "3", "8", "4">>, <<"s", "h", "a", "3", "-", "2", "5", "6">>, <<"s", "h", "a", "3", "-", "5", "1", "2">>,
                             <<"s", "h", "a", "3", "-", "2", "2", "4">>, <<"s", "h", "a", "3", "-", "3", "8", "4">>, <<"b", "l", "a", "k", "e", "2", "s">>, <<"b", "l", "a", "k", "e", "2", "b">> } }

\* the final extension of a name: from its last dot on, empty without a dot
FinalExtension(name) ==
    IF \E i \in 1..Len(name) : name[i] = "."
    THEN SubSeq(name, MaxOf({ i \in 1..Len(name) : name[i] = "." }), Len(name))
    ELSE <<>>

\* C16: IsChecksumFile(name) is true exactly when the base filename matches
\* the generic manifest pattern case-insensitively (sha<digits>sum[s][.txt],
\* md5sum[s][.txt] or checksums.txt as the whole name, or 'checksum' or
\* 'checksums', optionally followed by '.txt', occurring in the name) or the
\* lowercased final extension is one of the thirteen known algorithm
\* extensions; archive.tar.gz.sha256, SHA512SUMS, checksums.txt and
\* binary.SHA256 are manifests, readme.txt, binary.exe and not.txt are not.
C16_ManifestNamesRecognised ==
    IsChecksumFileReturned =>
        /\ ret.isChecksum <=>
              \/ Fold(call.name) \in WholeManifestNames
              \/ Contains(Fold(call.name), <<"c", "h", "e", "c", "k", "s", "u", "m">>)
              \/ FinalExtension(ToLower(call.name)) \in KnownExtensions
        /\ call.name \in { <<"a", "r", "c", "h", "i", "v", "e", ".", "t", "a", "r", ".", "g", "z", ".", "s", "h", "a", "2", "5", "6">>, <<"S", "H", "A", "5", "1", "2", "S", "U", "M", "S">>, <<"c", "h", "e", "c", "k", "s", "u", "m", "s", ".", "t", "x", "t">>,
                            <<"b", "i", "n", "a", "r", "y", ".", "S", "H", "A", "2", "5", "6">> } => ret.isChecksum
        /\ call.name \in { <<"r", "e", "a", "d", "m", "e", ".", "t", "x", "t">>, <<"b", "i", "n", "a", "r", "y", ".", "e", "x", "e">>, <<"n", "o", "t", ".", "t", "x", "t">> } => ~ret.isChecksum

\* a file in a directory, with an algorithm extension in capitals, was recognised
C16_Witness ==
    /\ IsChecksumFileReturned
    /\ call.filePath = <<"d", "/", "b", "i", "n", "a", "r", "y", ".", "S", "H", "A", "2", "5", "6">>
    /\ ret.isChecksum


\* C17 as stated: only Execute ends the process, with status 1 when the
\* command returned an error and 0 when it succeeded; a failure inside
\* checksum verification reaches the caller of findDownloadAndVerifyAsset as
\* an error and never ends the process from inside the helper.
C17_OnlyExecuteEndsTheProcess ==
    Done =>
        /\ result.exit = 1 => result.status = "error"
        /\ result.exit = 0 <=> result.status = "ok"
        /\ (verify.ran /\ verify.outcome # "ok") => result.status = "error"

\* the asset IDs whose bytes were requested include no ID twice
NoRequestRepeated == \A i, j \in DOMAIN requests : i # j => requests[i] # requests[j]

\* C18: nothing is retried: in one run the release lookup is called at most
\* once and the bytes are requested at most once for the main asset and at
\* most once for the checksum asset, in that order and for no other asset; a
\* failed main-asset download ends the run with an error with no further
\* request, neither for another matching asset nor for the checksum asset.
C18_NothingIsRetried ==
    /\ lookups <= 1
    /\ Len(requests) <= 2
    /\ NoRequestRepeated
    /\ Len(requests) >= 1 => requests[1] = assets[mainAssetToDownload].ID
    /\ Len(requests) = 2 =>
          /\ checksumAssetToDownload # 0
          /\ requests[2] = assets[checksumAssetToDownload].ID
          /\ downloadedMainAssetActualPath # <<>>
    /\ (pc \in {"checksum", "verify", "return", "done"} /\ mainAssetToDownload # 0
            /\ downloadedMainAssetActualPath = <<>>) =>
          /\ Done
          /\ result.status = "error"
          /\ Len(requests) <= 1
          /\ actualChecksumAssetPath = <<>>

\* C18 happens: the release has a checksum file, the download of the main
\* asset was requested and failed, and the run is over after that one request
C18_Witness ==
    /\ Done
    /\ result = Failed("main")
    /\ checksumAssetToDownload # 0
    /\ lookups = 1
    /\ Len(requests) = 1


\* C19: if all bytes were copied to the destination file and only closing the
\* file then fails, the save still reports success and the fully written file
\* is kept: its path is recorded as downloaded, the run goes on, and until a
\* later step touches the path the complete content is on disk.
C19_CloseErrorAfterCopyIsNotAFailure ==
    \A i \in DOMAIN saves :
        saves[i].closeErr =>
            /\ saves[i].err = "none"
            /\ ~saves[i].streamFailed
            /\ i = 1 => /\ downloadedMainAssetActualPath = saves[1].path
                        /\ result # Failed("main")
            /\ i = 2 => actualChecksumAssetPath = saves[2].path
            /\ (i = Len(saves) /\ ~verify.ran) =>
                  /\ Exists(files, saves[i].path)
                  /\ files[saves[i].path] \in {BodyA, BodyB} \cup Manifests

\* C19 happens: closing the main asset's file failed after a complete copy and
\* the run ended successfully with the file on disk
C19_Witness ==
    /\ Done
    /\ Len(saves) = 1
    /\ saves[1].closeErr
    /\ result.status = "ok"
    /\ result.Path = saves[1].path
    /\ Exists(files, saves[1].path)


\* the names MatchFile is asked about: those of the matcher's harness and those
\* of the release assets
QueriedNames ==
    { AssetName(system, architecture, shape, sep) :
        system \in NameSystems, architecture \in NameArchitectures,
        shape \in NameShapes, sep \in NameSeparators }
    \cup { a.Name : a \in { b \in AssetUniverse : b.hasName } }

\* C20: while the pattern set has not been built MatchFile returns false for
\* every filename and does not fail, so a run in which the matcher was never
\* initialised ends with the no-suitable-asset error, not with a crash, once
\* it has a release with assets to scan; nothing is requested or written.
C20_UninitialisedMatcherMatchesNothing ==
    osArchRegexes = <<>> =>
        /\ \A file \in QueriedNames : MatchFile(osArchRegexes, file) = FALSE
        /\ result.status \notin {"panic", "fatal", "ok"}
        /\ (pc = "done" /\ assets # <<>>) =>
              /\ result = Failed("nosuitable")
              /\ mainAssetToDownload = 0
              /\ requests = <<>>
              /\ files = NoFiles

\* C20 happens: the release holds a binary for this host, which the built
\* matcher accepts, and the run with the unbuilt matcher ended without it
C20_Witness ==
    /\ osArchRegexes = <<>>
    /\ Done
    /\ result = Failed("nosuitable")
    /\ \E i \in DOMAIN assets : Suitable(GetOSArch(GOOS, GOARCH), assets[i])


\* verification ended in a checksum mismatch: the digest the manifest lists and
\* the digest of the downloaded file differ
VerificationMismatch == verify.ran /\ verify.err = "mismatch"

\* C21 as stated: when verification of a downloaded main asset ends in a
\* checksum mismatch, both the main asset file and the checksum file are
\* removed and an error is returned to findDownloadAndVerifyAsset, so after
\* the run neither file remains on disk.
C21_MismatchRemovesBothFiles ==
    VerificationMismatch =>
        /\ result.status = "error"
        /\ ~Exists(files, downloadedMainAssetActualPath)
        /\ ~Exists(files, actualChecksumAssetPath)


\* the main asset was downloaded and the download of the selected checksum
\* asset failed
ChecksumDownloadFailed ==
    /\ pc \in {"return", "done", "verify"}
    /\ downloadedMainAssetActualPath # <<>>
    /\ checksumAssetToDownload # 0
    /\ actualChecksumAssetPath = <<>>

\* C22 as stated: if the main asset was downloaded and downloading the
\* selected checksum asset fails, the main asset file is left in place,
\* verification is skipped, and the pipeline ends successfully returning the
\* main asset's name and path.
C22_ChecksumDownloadFailureKeepsMainAsset ==
    ChecksumDownloadFailed =>
        /\ pc # "verify"
        /\ ~verify.ran
        /\ Exists(files, downloadedMainAssetActualPath)
        /\ files[downloadedMainAssetActualPath] \in {BodyA, BodyB}
        /\ Done => /\ result.status = "ok"
                   /\ result.Name = assets[mainAssetToDownload].Name
                   /\ result.Path = downloadedMainAssetActualPath


\* the thirteen supported algorithm names
ThirteenNames ==
    { <<"b", "l", "a", "k", "e", "2", "b">>, <<"b", "l", "a", "k", "e", "2", "s">>, <<"c", "r", "c", "3", "2">>, <<"m", "d", "5">>, <<"s", "h", "a", "1">>, <<"s", "h", "a", "2", "2", "4">>, <<"s", "h", "a", "2", "5", "6">>,
      <<"s", "h", "a", "3", "8", "4">>, <<"s", "h", "a", "5", "1", "2">>, <<"s", "h", "a", "3", "-", "2", "2", "4">>, <<"s", "h", "a", "3", "-", "2", "5", "6">>, <<"s", "h", "a", "3", "-", "3", "8", "4">>, <<"s", "h", "a", "3", "-", "5", "1", "2">> }

\* the algorithm name the call resolves: the extension's, else the supplied one
ResolvedName ==
    IF CallExtension \in algorithmExts THEN TrimPrefix(CallExtension, <<".">>)
    ELSE call.defaultAlgoForGeneric

\* C23: verification fails fast on an unsupported algorithm: the resolved
\* name is accepted exactly when, ignoring case, it is one of the thirteen
\* supported names; for any other name the call returns the
\* unsupported-algorithm error, reporting the rejected name, whatever the
\* state of the manifest and of the asset, which are not looked at.
C23_UnsupportedAlgorithmFailsFast ==
    (VerifyChecksumReturned /\ ResolvedName # <<>>) =>
        IF ToLower(ResolvedName) \in ThirteenNames
        THEN ret.err # "unsupported"
        ELSE /\ ~ret.valid
             /\ ret.err = "unsupported"
             /\ ret.algo = ResolvedName

\* C23 happens: a name that is not supported was rejected in a call whose
\* manifest does not exist, which a read of the manifest would have reported
C23_Witness ==
    /\ VerifyChecksumReturned
    /\ ret.err = "unsupported"
    /\ ret.algo = <<"c", "r", "c", "6", "4">>
    /\ ~Exists(files, Clean(call.checksumFilePath))


\* C24: classification is exclusive and checksum takes precedence: an asset
\* whose name is a checksum-manifest name is never selected as the main
\* asset, even when the name also matches the host OS/architecture; the
\* selected main asset always satisfies MatchFile and never IsChecksumFile,
\* and no asset is selected as both.
C24_ChecksumNameIsNeverMainAsset ==
    ScanReturned =>
        /\ ret.main # 0 =>
              /\ MatchFile(osArchRegexes, call.assets[ret.main].Name)
              /\ ~IsChecksumFile(call.assets[ret.main].Name)
              /\ ret.main # ret.checksum
        /\ ret.checksum # 0 => IsChecksumFile(call.assets[ret.checksum].Name)

\* C24 happens: the list starts with a checksum file whose name matches the
\* host (t_linux_amd64.SHA512); it became the checksum asset and the binary
\* behind it the main asset
C24_Witness ==
    /\ ScanReturned
    /\ Len(call.assets) > 1
    /\ call.assets[1].hasName /\ call.assets[1].hasID
    /\ call.assets[1].Name = NameSha512
    /\ MatchFile(osArchRegexes, NameSha512)
    /\ ret.checksum = 1
    /\ ret.main > 1

\* C25: in every run in which both a main asset and a checksum asset are
\* downloaded, the destination path of the main asset differs from the
\* destination path of the checksum manifest, for every --path and
\* --binName; writing the manifest never overwrites the main asset.
C25_DestinationPathsDiffer ==
    (downloadedMainAssetActualPath # <<>> /\ actualChecksumAssetPath # <<>>) =>
        downloadedMainAssetActualPath # actualChecksumAssetPath

\* the file system of a run over the same release bytes that stored the main
\* asset at another path: the asset's bytes there, the manifest at its own path
OtherRunFiles(otherPath) ==
    WriteFile(WriteFile(NoFiles, otherPath, files[downloadedMainAssetActualPath]),
              actualChecksumAssetPath, files[actualChecksumAssetPath])

\* what verification answers: how it ends, and the error it ends with
Verdict(v) == <<v.outcome, v.err, v.vc>>

SameVerdictAt(otherPath, readFails1, readFails2, rmFails) ==
    Verdict(verifyAssetChecksum(OtherRunFiles(otherPath), otherPath, assets[mainAssetToDownload].Name, actualChecksumAssetPath, readFails1, readFails2, rmFails, FALSE, NoScanError, NoScanError))
    = Verdict(verifyAssetChecksum(files, downloadedMainAssetActualPath, assets[mainAssetToDownload].Name, actualChecksumAssetPath, readFails1, readFails2, rmFails, FALSE, NoScanError, NoScanError))

\* both files are on disk at different paths and verification is about to run
ReadyToVerify ==
    /\ pc = "verify"
    /\ downloadedMainAssetActualPath # actualChecksumAssetPath
    /\ Exists(files, downloadedMainAssetActualPath)
    /\ Exists(files, actualChecksumAssetPath)

\* C26: the verification result does not depend on the name or directory the
\* main asset is stored under: a run over the same release assets and bytes
\* with any other --binName / --path (the default name included), and the same
\* answers of the file system, gives the same verification outcome.
C26_VerificationIndependentOfSaveLocation ==
    ReadyToVerify =>
        \A b \in BinNames, p \in Paths :
            TargetMainAssetSavePath(b, p, assets[mainAssetToDownload].Name) # actualChecksumAssetPath =>
                \A readFails1 \in BOOLEAN, readFails2 \in BOOLEAN, rmFails \in BOOLEAN :
                    SameVerdictAt(TargetMainAssetSavePath(b, p, assets[mainAssetToDownload].Name), readFails1, readFails2, rmFails)

\* the entries of the release that carry a name, an identifier and a declared
\* size, and are a platform-matching file that is not a checksum file
WellFormedCandidates ==
    {i \in DOMAIN assets :
        /\ assets[i].hasName /\ assets[i].hasID /\ assets[i].hasSize
        /\ ~IsChecksumFile(assets[i].Name)
        /\ MatchFile(osArchRegexes, assets[i].Name)}

\* the selection scan of the run has ended
SelectionMade == mainAssetToDownload # 0 \/ result.err = "nosuitable"

\* C27: an asset entry that is missing a required field (name, identifier or
\* declared size) is skipped during selection scanning: the first well-formed
\* platform-matching asset is selected, and when there is none the run fails
\* with the no-suitable-asset error.
C27_MalformedEntriesAreSkipped ==
    SelectionMade =>
        IF WellFormedCandidates = {}
        THEN mainAssetToDownload = 0 /\ result = Failed("nosuitable")
        ELSE mainAssetToDownload = FirstOf(WellFormedCandidates)

DownloadReturned == pc = "downloaded" /\ call.fn = "downloadAndSaveAsset"

\* the asset of the call lacks a name, an identifier or a size
AssetLacksField == ~call.asset.hasName \/ ~call.asset.hasID \/ ~call.asset.hasSize

\* the download collaborator answered without a readable byte stream
NoStreamReturned == call.resp \in {"error", "redirect", "nothing"}

\* C28: downloadAndSaveAsset creates or truncates the destination file only
\* after the download collaborator has returned a readable byte stream: when
\* the asset lacks a name, identifier or size, when the collaborator returns
\* an error, or a redirect locator or nothing without a stream, the operation
\* fails and the file system is left unchanged; for a malformed asset the
\* collaborator is not called at all.
C28_NoFileBeforeStream ==
    DownloadReturned =>
        /\ AssetLacksField => ret.err # "none" /\ files = call.fs /\ ~ret.called
        /\ (~AssetLacksField /\ NoStreamReturned) =>
              ret.err # "none" /\ files = call.fs /\ ret.called
        /\ files # call.fs =>
              ~AssetLacksField /\ call.resp \in {"stream", "streamAndRedirect"}

\* C28 happens: a file was at the target path and the collaborator answered a
\* well-formed asset with a redirect locator and no stream; the call failed
\* and the file is there as it was
C28_Witness ==
    /\ DownloadReturned
    /\ ~AssetLacksField
    /\ call.resp = "redirect"
    /\ Exists(call.fs, call.targetSavePath)
    /\ ret.err = "redirect"
    /\ files = call.fs
    /\ files[call.targetSavePath] = BodyB

\* C29: findDownloadAndVerifyAsset ends with either a result or an error
\* value for every asset list, including lists whose selected main asset has
\* a name, identifier and size but no content type: building the returned
\* Asset never faults on an absent optional field.
C29_ReturnNeverFaults ==
    (Done /\ mainAssetToDownload # 0 /\ verify.outcome # "fatal") =>
        /\ result.status \in {"ok", "error"}
        /\ result.status = "ok" =>
              /\ result.Name = assets[mainAssetToDownload].Name
              /\ result.Path = downloadedMainAssetActualPath

GetAlgorithmFromFilenameReturned == pc = "derived" /\ call.fn = "GetAlgorithmFromFilename"

\* the positions of the dots of the filename behind which neither a dot nor a
\* slash follows: the dot its extension starts at, if it has one
ExtensionDots ==
    {k \in 1..Len(call.filename) :
        /\ call.filename[k] = "."
        /\ \A j \in (k + 1)..Len(call.filename) : call.filename[j] \notin {".", "/"}}

\* C30: the algorithm-extension table and the hasher table are consistent:
\* for every filename, if GetAlgorithmFromFilename reports found, the
\* returned name is the lowercased extension without its dot, GetHasher
\* accepts that name, and IsChecksumFile is true for the same filename; an
\* algorithm derived from a checksum file's extension is never rejected as
\* unsupported.
C30_ExtensionTableMatchesHasherTable ==
    (GetAlgorithmFromFilenameReturned /\ ret.found) =>
        /\ \E k \in ExtensionDots :
              ret.name = ToLower(SubSeq(call.filename, k + 1, Len(call.filename)))
        /\ ret.name \in ThirteenNames
        /\ ret.hasher
        /\ ret.isChecksum

\* C30 happens: an uppercase extension behind a dotted directory and a dotted
\* stem was found as sha3-512, which GetHasher accepts
C30_Witness ==
    /\ GetAlgorithmFromFilenameReturned
    /\ call.filename = <<"d", ".", "s", "h", "a", "2", "5", "6", "/", "a", "r", "c", "h", "i", "v", "e", ".", "t", "a", "r", ".", "g", "z", ".", "S", "H", "A", "3", "-", "5", "1", "2">>
    /\ ret.found
    /\ ret.name = <<"s", "h", "a", "3", "-", "5", "1", "2">>
    /\ ret.hasher
    /\ ret.isChecksum

====
